---- MODULE Spec2Model ----
(***************************************************************************)
(* Model of the accessibility-tree form scanner and filler                 *)
(* (theorycraft-form/main.py, theorycraft-form/ai-form.py).                *)
(*                                                                         *)
(* Text is a sequence of characters; a character is a one-symbol string    *)
(* ("a", "A", " ", "(" ...), "~" standing for the non-breaking spaces      *)
(* U+00A0, U+202F and U+2007.                                              *)
(* An accessibility tree is a sequence of node records; a node's children  *)
(* are the later nodes that name it as parent, in sequence order. The      *)
(* empty sequence is the absent tree (None).                               *)
(***************************************************************************)
EXTENDS Naturals, Integers, Sequences, FiniteSets, TLC

---------------------------------------------------------------------------
(* Text helpers *)

S0 == << >>

\* a string literal as a sequence of characters
Str(s) == SubSeq([ i \in 1..Len(s) |-> SubSeq(s, i, i) ], 1, Len(s))

UpperChars == <<"A","B","C","D","E","F","G","H","I","J","K","L","M",
                "N","O","P","Q","R","S","T","U","V","W","X","Y","Z">>
LowerChars == <<"a","b","c","d","e","f","g","h","i","j","k","l","m",
                "n","o","p","q","r","s","t","u","v","w","x","y","z">>
DigitChars == {"0","1","2","3","4","5","6","7","8","9"}

Range(s) == { s[i] : i \in DOMAIN s }

\* the small letter of every capital
LowerOf ==
    [ c \in Range(UpperChars) |->
        LowerChars[CHOOSE i \in DOMAIN UpperChars : UpperChars[i] = c] ]

\* str.lower() on one character
LowerChar(c) == IF c \in DOMAIN LowerOf THEN LowerOf[c] ELSE c

\* str.lower()
Lower(s) == SubSeq([ i \in DOMAIN s |-> LowerChar(s[i]) ], 1, Len(s))

\* the characters the regular expression class \s matches
IsSpace(c) == c \in {" ", "~", "\n", "\t"}

LowerAlnumChars == Range(LowerChars) \cup DigitChars

IsAlnumLower(c) == c \in LowerAlnumChars

\* str.strip() / the .strip() that ends _norm_text
RECURSIVE LStrip(_)
LStrip(s) == IF s # S0 /\ IsSpace(Head(s)) THEN LStrip(Tail(s)) ELSE s

RECURSIVE RStrip(_)
RStrip(s) ==
    IF s # S0 /\ IsSpace(s[Len(s)]) THEN RStrip(SubSeq(s, 1, Len(s) - 1)) ELSE s

Strip(s) == RStrip(LStrip(s))

\* re.sub(r"\s+", " ", s): every run of whitespace becomes one space
RECURSIVE CollapseSpaces(_)
CollapseSpaces(s) ==
    IF s = S0 THEN S0
    ELSE IF IsSpace(Head(s))
      THEN <<" ">> \o CollapseSpaces(LStrip(s))
      ELSE <<Head(s)>> \o CollapseSpaces(Tail(s))

\* p occurs in s starting at position i
OccursAt(s, p, i) ==
    /\ i >= 1
    /\ i + Len(p) - 1 <= Len(s)
    /\ \A k \in 1..Len(p) : s[i + k - 1] = p[k]

\* Python's  p in s  on strings
Contains(s, p) == \E i \in 1..(Len(s) + 1) : OccursAt(s, p, i)

EndsWith(s, p) == Len(p) <= Len(s) /\ OccursAt(s, p, Len(s) - Len(p) + 1)

\* str.replace(p, "") for a non-empty p: non-overlapping, left to right
RECURSIVE RemoveAll(_, _)
RemoveAll(s, p) ==
    IF s = S0 THEN S0
    ELSE IF OccursAt(s, p, 1)
      THEN RemoveAll(SubSeq(s, Len(p) + 1, Len(s)), p)
      ELSE <<Head(s)>> \o RemoveAll(Tail(s), p)

\* str.split(): the whitespace-delimited tokens, as a sequence
RECURSIVE SplitWs(_)
SplitWs(s) ==
    LET t == LStrip(s)
        n == IF \E i \in DOMAIN t : IsSpace(t[i])
               THEN (CHOOSE i \in DOMAIN t :
                        IsSpace(t[i]) /\ \A j \in 1..(i - 1) : ~IsSpace(t[j])) - 1
               ELSE Len(t)
    IN  IF t = S0 THEN << >>
        ELSE <<SubSeq(t, 1, n)>> \o SplitWs(SubSeq(t, n + 1, Len(t)))

\* sorted(): the lexicographic order of Python strings, on a fixed
\* character order (space and punctuation before digits before capitals
\* before small letters, as in Unicode; nbsp after them)
CharOrder == <<"\t", "\n", " ", "'", "(", ")", "*", ",", "-", ".",
               "0","1","2","3","4","5","6","7","8","9", ":", ";", "?">>
             \o UpperChars \o <<"_">> \o LowerChars \o <<"|", "~">>

CharRank(c) ==
    IF \E i \in DOMAIN CharOrder : CharOrder[i] = c
      THEN CHOOSE i \in DOMAIN CharOrder : CharOrder[i] = c
      ELSE Len(CharOrder) + 1

RECURSIVE StrLess(_, _)
StrLess(a, b) ==
    IF b = S0 THEN FALSE
    ELSE IF a = S0 THEN TRUE
    ELSE IF Head(a) = Head(b) THEN StrLess(Tail(a), Tail(b))
    ELSE CharRank(Head(a)) < CharRank(Head(b))

\* sorted(list(set)): the members of a finite set of strings, ascending
SortedSeq(S) ==
    SubSeq([ i \in 1..Cardinality(S) |->
               CHOOSE x \in S : Cardinality({ y \in S : StrLess(y, x) }) = i - 1 ],
           1, Cardinality(S))

\* order-preserving removal of repeated members of a sequence
RECURSIVE Dedupe(_)
Dedupe(q) ==
    IF q = << >> THEN << >>
    ELSE LET r == Dedupe(SubSeq(q, 1, Len(q) - 1))
             x == q[Len(q)]
         IN  IF x \in Range(r) THEN r ELSE Append(r, x)

\* _norm_text (main.py): non-breaking spaces to spaces, whitespace runs
\* collapsed to one space, both ends stripped
_norm_text(s) == Strip(CollapseSpaces(s))

---------------------------------------------------------------------------
(* Accessibility trees *)

\* A node: role and name ("" when the snapshot has none), value, the
\* focused / disabled / readonly flags, and parent, the index of the
\* parent node (0 for the root, which is node 1).
Node(role, name, value, parent) ==
    [ role |-> role, name |-> name, value |-> value, focused |-> FALSE,
      disabled |-> FALSE, readonly |-> FALSE, parent |-> parent ]

\* node.get("children"): the children of node i, in order
Children(t, i) ==
    SelectSeq([ j \in 1..Len(t) |-> j ], LAMBDA j : t[j].parent = i)

\* role.lower(): the snapshot's roles are lower-case words, but for the
\* camel-case names of non-ARIA roles
RoleLower(r) ==
    CASE r = "WebArea" -> "webarea"
      [] r = "StaticText" -> "statictext"
      [] OTHER -> r

interactive_roles ==
    { "textbox", "searchbox", "combobox", "listbox", "checkbox", "radio",
      "switch", "spinbutton", "slider", "menuitemcheckbox", "menuitemradio",
      "textarea", "select" }

TEXT_INPUT_ROLES == { "textbox", "searchbox", "textarea", "spinbutton" }

\* the editable test without the disabled and read-only flags
_is_editable_role_any_state(role, node) ==
    /\ role # ""
    /\ RoleLower(role) \in interactive_roles

\* _is_editable_role(role, node)
_is_editable_role(role, node) ==
    /\ role # ""
    /\ RoleLower(role) \in interactive_roles
    /\ ~node.disabled
    /\ ~node.readonly

\* _walk(node): the subtree of node i in depth-first pre-order
RECURSIVE _walk(_, _)
RECURSIVE WalkEach(_, _)
_walk(t, i) == IF i = 0 THEN << >> ELSE <<i>> \o WalkEach(t, Children(t, i))

WalkEach(t, kids) ==
    IF kids = << >> THEN << >>
    ELSE _walk(t, Head(kids)) \o WalkEach(t, Tail(kids))

\* _find_focused_node(ax_tree, path): the first focused node of the
\* subtree of i in pre-order, with the path handed down to it
RECURSIVE FindFocusedFrom(_, _, _)
RECURSIVE FindFocusedIn(_, _, _)
\* a search that hands back the path with the focused node at its end
FindFocusedFromNewPath(t, i, path) ==
    IF t[i].focused THEN [ found |-> i, anc |-> Append(path, i) ]
    ELSE FindFocusedIn(t, Children(t, i), Append(path, i))

FindFocusedFrom(t, i, path) ==
    IF t[i].focused THEN [ found |-> i, anc |-> path ]
    ELSE FindFocusedIn(t, Children(t, i), Append(path, i))

FindFocusedIn(t, kids, new_path) ==
    IF kids = << >> THEN [ found |-> 0, anc |-> << >> ]
    ELSE LET r == FindFocusedFrom(t, Head(kids), new_path)
         IN  IF r.found # 0 THEN r ELSE FindFocusedIn(t, Tail(kids), new_path)

_find_focused_node(ax_tree) ==
    IF ax_tree = << >> THEN [ found |-> 0, anc |-> << >> ]
    ELSE FindFocusedFrom(ax_tree, 1, << >>)

container_roles == { "radiogroup", "group", "form", "listbox", "combobox" }

\* the outermost ancestor with a container role, 0 when there is none
RECURSIVE OutermostAncestor(_, _)
OutermostAncestor(t, ancestors) ==
    IF ancestors = << >> THEN 0
    ELSE IF t[Head(ancestors)].role \in container_roles THEN Head(ancestors)
    ELSE OutermostAncestor(t, Tail(ancestors))

\* for anc in reversed(ancestors): the nearest ancestor with a container
\* role, 0 when there is none
RECURSIVE NearestAncestor(_, _)
NearestAncestor(t, ancestors) ==
    IF ancestors = << >> THEN 0
    ELSE LET a == ancestors[Len(ancestors)]
         IN  IF t[a].role \in container_roles THEN a
             ELSE NearestAncestor(t, SubSeq(ancestors, 1, Len(ancestors) - 1))

\* _nearest_container(node, ancestors): (container, label); node 0 is None
_nearest_container(t, node, ancestors) ==
    IF node # 0 /\ t[node].role \in { "combobox", "listbox" }
      THEN [ container |-> node, label |-> _norm_text(t[node].name) ]
    ELSE IF NearestAncestor(t, ancestors) # 0
      THEN [ container |-> NearestAncestor(t, ancestors),
             label |-> _norm_text(t[NearestAncestor(t, ancestors)].name) ]
    ELSE IF node # 0
      THEN [ container |-> node, label |-> _norm_text(t[node].name) ]
    ELSE [ container |-> 0, label |-> S0 ]

\* the roles of the nodes that are the options of a container
target_roles(role) ==
    IF role \in { "combobox", "listbox" } THEN { "option" }
    ELSE IF role \in { "radiogroup", "group" } THEN { "radio", "checkbox" }
    ELSE { }

\* the normalized non-empty names of the nodes of ids with a target role
RECURSIVE OptionNames(_, _, _)
OptionNames(t, ids, targets) ==
    IF ids = << >> THEN << >>
    ELSE LET n == t[Head(ids)]
             rest == OptionNames(t, Tail(ids), targets)
         IN  IF n.role \in targets /\ _norm_text(n.name) # S0
               THEN <<_norm_text(n.name)>> \o rest
               ELSE rest

\* _collect_options_for_container(container): (options, role); the role
\* is "" (None) for a container that holds no options
_collect_options_for_container(t, container) ==
    IF container = 0 \/ target_roles(t[container].role) = { }
      THEN [ options |-> << >>, role |-> "" ]
      ELSE [ options |-> Dedupe(OptionNames(t, _walk(t, container),
                                            target_roles(t[container].role))),
             role |-> t[container].role ]

\* _find_nodes_by_role(ax_tree, role): in pre-order
_find_nodes_by_role(ax_tree, role) ==
    IF ax_tree = << >> THEN << >>
    ELSE SelectSeq(_walk(ax_tree, 1), LAMBDA j : ax_tree[j].role = role)

\* the pattern [\s:\-\u2013\u2014]* of _stable_label ("-" stands for the
\* three dashes)
IsSeparator(c) == IsSpace(c) \/ c \in { ":", "-" }

RECURSIVE RStripSeparators(_)
RStripSeparators(s) ==
    IF s # S0 /\ IsSeparator(s[Len(s)])
      THEN RStripSeparators(SubSeq(s, 1, Len(s) - 1))
      ELSE s

\* _stable_label(label, node): the label without the node's value, and
\* the separators before it, at its end
_stable_label(label, value) ==
    LET lbl == _norm_text(label)
        val == _norm_text(value)
    IN  IF val = S0 THEN lbl
        ELSE IF EndsWith(lbl, val)
          THEN RStripSeparators(SubSeq(lbl, 1, Len(lbl) - Len(val)))
          ELSE lbl

---------------------------------------------------------------------------
(* Example values (main.py, _choose_option and _guess_example) *)

\* None, for the values that are a string or None
None == <<"None">>

StripEach(options) ==
    SubSeq([ i \in DOMAIN options |-> Strip(options[i]) ], 1, Len(options))

\* the first member of q whose flag is set, None when there is none
FirstFlagged(q, flags) ==
    IF \E i \in DOMAIN q : flags[i]
      THEN q[CHOOSE i \in DOMAIN q : flags[i] /\ \A j \in 1..(i - 1) : ~flags[j]]
      ELSE None

placeholders ==
    { Str("please select"), Str("--"), Str("select"), Str("select one"),
      Str("choose") }

\* for p in preferred: for o in norm: if o.lower() == p.lower(): return o
RECURSIVE FirstPreferred(_, _)
FirstPreferred(norm, preferred) ==
    IF preferred = << >> THEN None
    ELSE LET hit == FirstFlagged(norm,
                      [ i \in DOMAIN norm |-> Lower(norm[i]) = Lower(Head(preferred)) ])
         IN  IF hit # None THEN hit ELSE FirstPreferred(norm, Tail(preferred))

\* _choose_option(options, *preferred)
_choose_option(options, preferred) ==
    IF options = << >> THEN None
    ELSE LET norm == StripEach(options)
             pref == FirstPreferred(norm, preferred)
             real == FirstFlagged(norm,
                       [ i \in DOMAIN norm |->
                           norm[i] # S0 /\ Lower(norm[i]) \notin placeholders ])
         IN  IF pref # None THEN pref
             ELSE IF real # None THEN real
             ELSE norm[1]

IsWordChar(c) ==
    c \in Range(LowerChars) \cup Range(UpperChars) \cup DigitChars \cup { "_" }

\* the regular expression \b at position i of s (between s[i-1] and s[i])
BoundaryAt(s, i) ==
    LET before == i > 1 /\ i - 1 <= Len(s) /\ IsWordChar(s[i - 1])
        after == i >= 1 /\ i <= Len(s) /\ IsWordChar(s[i])
    IN  before # after

\* re.search(r"\b(w)\b", s) for a word w
HasWord(s, w) ==
    \E i \in 1..Len(s) :
        OccursAt(s, w, i) /\ BoundaryAt(s, i) /\ BoundaryAt(s, i + Len(w))

\* re.search(r"^(work )?email( address)?\b", n)
EmailPattern(n) ==
    \/ OccursAt(n, Str("email"), 1) /\ BoundaryAt(n, 6)
    \/ OccursAt(n, Str("work email"), 1) /\ BoundaryAt(n, 11)
    \/ OccursAt(n, Str("email address"), 1) /\ BoundaryAt(n, 14)
    \/ OccursAt(n, Str("work email address"), 1) /\ BoundaryAt(n, 19)

\* v or options[0]
OrFirst(v, options) == IF v # None /\ v # S0 THEN v ELSE options[1]

authorization_tokens ==
    { Str("authoris"), Str("authoriz"), Str("work authorization"),
      Str("work authorisation"), Str("visa"), Str("sponsor"),
      Str("sponsorship"), Str("work permit"), Str("eligib") }

\* _guess_example(name, role, options); role "" is None
_guess_example(name, role, options) ==
    LET n == Strip(Lower(name))
        has(w) == Contains(n, Str(w))
    IN  IF role \in TEXT_INPUT_ROLES \/ (role = "" /\ options = << >>) THEN
          CASE has("first name") -> Str("Jane")
            [] has("last name") -> Str("Doe")
            [] n = Str("name") \/ has("full name") -> Str("Jane Doe")
            [] has("city") \/ has("cities") \/ has("location") -> Str("San Francisco")
            [] has("linkedin") -> Str("https://www.linkedin.com/in/jane-doe")
            [] has("github") -> Str("https://github.com/janedoe")
            [] has("website") \/ has("portfolio") -> Str("https://janedoe.dev")
            [] HasWord(n, Str("phone")) \/ HasWord(n, Str("mobile"))
                 \/ HasWord(n, Str("cell")) -> Str("555-555-1234")
            [] EmailPattern(n)
                 \/ n \in { Str("email"), Str("email *"), Str("email address") }
                 -> Str("jane.doe@example.com")
            [] OTHER -> Str("Example text")
        ELSE IF options # << >> THEN
          CASE has("how did you hear") ->
                 OrFirst(_choose_option(options,
                    <<Str("Hacker News"), Str("LinkedIn (Job Posting)")>>), options)
            [] has("gender") ->
                 OrFirst(_choose_option(options,
                    <<Str("Decline To Self Identify")>>), options)
            [] has("disability") ->
                 OrFirst(_choose_option(options,
                    <<Str("I do not want to answer")>>), options)
            [] has("veteran") ->
                 OrFirst(_choose_option(options,
                    <<Str("I am not a protected veteran"),
                      Str("I don't wish to answer")>>), options)
            [] has("hispanic") ->
                 OrFirst(_choose_option(options, <<Str("No")>>), options)
            [] has("race") ->
                 OrFirst(_choose_option(options,
                    <<Str("Asian"), Str("Two or More Races"), Str("White")>>), options)
            [] \E tok \in authorization_tokens : Contains(n, tok) -> S0
            [] has("certify") \/ has("privacy") \/ has("policy") ->
                 OrFirst(_choose_option(options, <<Str("Yes")>>), options)
            [] OTHER -> OrFirst(_choose_option(options, << >>), options)
        ELSE IF role = "combobox" /\ (has("city") \/ has("location"))
          THEN Str("San Francisco")
        ELSE S0

---------------------------------------------------------------------------
(* The field scan (main.py, _scan_all_fields) *)

grouped_roles ==
    { "radio", "checkbox", "combobox", "listbox", "radiogroup", "group" }

\* an add_grouped that replaces the options of an entry, not adds to them
add_grouped_replacing(grouped, label, role, options) ==
    IF \E k \in DOMAIN grouped : grouped[k].label = label
      THEN [ k \in DOMAIN grouped |->
               IF grouped[k].label = label
                 THEN [ label |-> label,
                        role |-> IF role # "" THEN role ELSE grouped[k].role,
                        options |-> Range(options) ]
                 ELSE grouped[k] ]
      ELSE Append(grouped,
                  [ label |-> label, role |-> role, options |-> Range(options) ])

\* add_grouped(label, role, options) on grouped, a dict kept here as the
\* sequence of its entries in insertion order
add_grouped(grouped, label, role, options) ==
    IF \E k \in DOMAIN grouped : grouped[k].label = label
      THEN [ k \in DOMAIN grouped |->
               IF grouped[k].label = label
                 THEN [ label |-> label,
                        role |-> IF role # "" THEN role ELSE grouped[k].role,
                        options |-> grouped[k].options \cup Range(options) ]
                 ELSE grouped[k] ]
      ELSE Append(grouped,
                  [ label |-> label, role |-> role, options |-> Range(options) ])

\* the options of every listbox of the tree named label, concatenated
RECURSIVE ListboxOptions(_, _, _)
ListboxOptions(t, lbs, label) ==
    IF lbs = << >> THEN << >>
    ELSE (IF _norm_text(t[Head(lbs)].name) = label
            THEN _collect_options_for_container(t, Head(lbs)).options
            ELSE << >>)
         \o ListboxOptions(t, Tail(lbs), label)

\* the body of visit(node, ancestors) before it recurses: acc holds
\* fields and grouped
VisitNode(t, i, ancestors, acc) ==
    LET role == t[i].role
        name == _norm_text(t[i].name)
        nc == _nearest_container(t, i, ancestors)
        label == IF nc.label # S0 THEN nc.label ELSE name
        co == _collect_options_for_container(t, nc.container)
        field_role == IF co.role # "" THEN co.role ELSE role
        opts == IF (field_role = "combobox" \/ role = "combobox")
                   /\ co.options = << >>
                  THEN ListboxOptions(t, _find_nodes_by_role(t, "listbox"), label)
                  ELSE co.options
    IN  IF role \in grouped_roles THEN
          IF nc.container # 0 /\ label # S0
            THEN [ acc EXCEPT !.grouped = add_grouped(@, label, field_role, opts) ]
            ELSE acc
        ELSE IF role \in TEXT_INPUT_ROLES /\ name # S0 THEN
          [ acc EXCEPT !.fields = Append(@,
              [ name |-> name, role |-> role, options |-> << >>,
                example |-> _guess_example(name, role, << >>),
                multi |-> "None" ]) ]
        ELSE acc

\* visit(node, ancestors): the node, then its children in order
RECURSIVE visit(_, _, _, _)
RECURSIVE VisitEach(_, _, _, _)
visit(t, i, ancestors, acc) ==
    VisitEach(t, Children(t, i), Append(ancestors, i),
              VisitNode(t, i, ancestors, acc))

VisitEach(t, kids, ancestors, acc) ==
    IF kids = << >> THEN acc
    ELSE VisitEach(t, Tail(kids), ancestors, visit(t, Head(kids), ancestors, acc))

\* for label, meta in grouped.items(): fields.append(...)
FlushGrouped(grouped) ==
    [ k \in DOMAIN grouped |->
        LET options == SortedSeq(grouped[k].options)
        IN  [ name |-> grouped[k].label, role |-> grouped[k].role,
              options |-> options,
              example |-> _guess_example(grouped[k].label, grouped[k].role, options),
              multi |-> IF grouped[k].role = "listbox" THEN "True" ELSE "False" ] ]

\* k = (role, name) of a descriptor
FieldKey(f) == <<f.role, f.name>>

\* a deduplication that keeps the last descriptor of a key, not the first
RECURSIVE DedupeFieldsKeepLast(_)
DedupeFieldsKeepLast(fields) ==
    IF fields = << >> THEN << >>
    ELSE LET uniq == DedupeFieldsKeepLast(Tail(fields))
             f == Head(fields)
         IN  IF \E k \in DOMAIN uniq : <<uniq[k].role, uniq[k].name>> = <<f.role, f.name>>
               THEN uniq
               ELSE <<f>> \o uniq

\* the last loop of _scan_all_fields: drop every descriptor whose key an
\* earlier one has
RECURSIVE DedupeFields(_)
DedupeFields(fields) ==
    IF fields = << >> THEN << >>
    ELSE LET uniq == DedupeFields(SubSeq(fields, 1, Len(fields) - 1))
             f == fields[Len(fields)]
         IN  IF \E k \in DOMAIN uniq : FieldKey(uniq[k]) = FieldKey(f)
               THEN uniq
               ELSE Append(uniq, f)

\* a scan that flushes the grouped descriptors ahead of the text ones
_scan_all_fields_grouped_first(ax_tree) ==
    IF ax_tree = << >> THEN << >>
    ELSE LET acc == visit(ax_tree, 1, << >>, [ fields |-> << >>, grouped |-> << >> ])
         IN  DedupeFields(FlushGrouped(acc.grouped) \o acc.fields)

\* _scan_all_fields(ax_tree)
_scan_all_fields(ax_tree) ==
    IF ax_tree = << >> THEN << >>
    ELSE LET acc == visit(ax_tree, 1, << >>, [ fields |-> << >>, grouped |-> << >> ])
         IN  DedupeFields(acc.fields \o FlushGrouped(acc.grouped))

---------------------------------------------------------------------------
(* Answer normalization (ai-form.py, _best_option, validate_and_normalize) *)

\* A YAML value: a string, a list of strings, or null
PyStr(x) == [ t |-> "str", v |-> <<x>> ]
PyList(q) == [ t |-> "list", v |-> q ]
PyNone == [ t |-> "none", v |-> << >> ]

\* str(value) of a scalar: the string itself, "None" for null
StrOf(value) == IF value.t = "str" THEN value.v[1] ELSE Str("None")

\* re.sub(r"\(.*?\)", "", s): every "(" up to the next ")" on its line
RECURSIVE DropParens(_)
DropParens(s) ==
    IF s = S0 THEN S0
    ELSE IF Head(s) = "("
            /\ \E j \in 2..Len(s) :
                 s[j] = ")" /\ \A k \in 2..(j - 1) : s[k] \notin { ")", "\n" }
      THEN LET j == CHOOSE j \in 2..Len(s) :
                      s[j] = ")" /\ \A k \in 2..(j - 1) : s[k] \notin { ")", "\n" }
           IN  DropParens(SubSeq(s, j + 1, Len(s)))
      ELSE <<Head(s)>> \o DropParens(Tail(s))

\* re.sub(r"[^a-z0-9\s]", " ", s)
PunctToSpace(s) ==
    SubSeq([ i \in DOMAIN s |->
               IF IsAlnumLower(s[i]) \/ IsSpace(s[i]) THEN s[i] ELSE " " ],
           1, Len(s))

\* canon(s) of _best_option
canon(s) ==
    Strip(CollapseSpaces(PunctToSpace(RemoveAll(DropParens(Lower(s)), Str("city")))))

\* the synonyms table of _best_option, as (key, value) pairs
synonyms ==
    { <<Str("new york city"), Str("New York")>>,
      <<Str("nyc"), Str("New York")>>,
      <<Str("sf"), Str("San Francisco")>>,
      <<Str("sfo"), Str("San Francisco")>>,
      <<Str("mountain view"), Str("San Jose (Campbell)")>> }

\* synonyms[tl] when tl is a key and the value is an option, else None
SynonymOf(tl, options) ==
    IF \E e \in synonyms : e[1] = tl /\ e[2] \in Range(options)
      THEN (CHOOSE e \in synonyms : e[1] = tl)[2]
      ELSE None

\* len(tset & oset)
Overlap(tlc, oc) == Cardinality(Range(SplitWs(tlc)) \cap Range(SplitWs(oc)))

\* the token overlap loop: best = (score, option), replaced only by a
\* strictly higher score
RECURSIVE BestOverlap(_, _, _)
BestOverlap(tlc, options, best) ==
    IF options = << >> THEN best
    ELSE LET score == Overlap(tlc, canon(Head(options)))
         IN  BestOverlap(tlc, Tail(options),
               IF score > best[1] THEN <<score, Head(options)>> ELSE best)

\* the stages after the synonyms with token overlap ahead of containment
FuzzyOptionOverlapFirst(t, options) ==
    LET tlc == canon(t)
        oc == SubSeq([ i \in DOMAIN options |-> canon(options[i]) ], 1, Len(options))
        exact == FirstFlagged(options, [ i \in DOMAIN options |-> oc[i] = tlc ])
        sub == FirstFlagged(options,
                 [ i \in DOMAIN options |->
                     Contains(oc[i], tlc) \/ Contains(tlc, oc[i]) ])
        best == BestOverlap(tlc, options, <<0, None>>)
    IN  IF exact # None THEN exact
        ELSE IF best[2] # None /\ best[1] > 0 THEN best[2]
        ELSE IF sub # None THEN sub
        ELSE None

\* the stages of _best_option after the synonyms: canonical equality,
\* containment either way, token overlap; None when none of them matches
FuzzyOption(t, options) ==
    LET tlc == canon(t)
        oc == SubSeq([ i \in DOMAIN options |-> canon(options[i]) ], 1, Len(options))
        exact == FirstFlagged(options, [ i \in DOMAIN options |-> oc[i] = tlc ])
        sub == FirstFlagged(options,
                 [ i \in DOMAIN options |->
                     Contains(oc[i], tlc) \/ Contains(tlc, oc[i]) ])
        best == BestOverlap(tlc, options, <<0, None>>)
    IN  IF exact # None THEN exact
        ELSE IF sub # None THEN sub
        ELSE IF best[2] # None /\ best[1] > 0 THEN best[2]
        ELSE None

\* a _best_option that gives the token back when no stage matches
_best_option_token(token, options) ==
    IF options = << >> THEN token
    ELSE LET t == Strip(token)
             syn == SynonymOf(Lower(t), options)
             fuzzy == FuzzyOption(t, options)
         IN  IF syn # None THEN syn
             ELSE IF fuzzy # None THEN fuzzy
             ELSE t

\* _best_option(token, options) of ai-form.py
_best_option(token, options) ==
    IF options = << >> THEN token
    ELSE LET t == Strip(token)
             syn == SynonymOf(Lower(t), options)
             fuzzy == FuzzyOption(t, options)
         IN  IF syn # None THEN syn
             ELSE IF fuzzy # None THEN fuzzy
             ELSE options[1]

\* lower_map.get(token.lower()): the last option equal to the token but
\* for letter case, None when there is none
LowerMapGet(options, token) ==
    IF \E i \in DOMAIN options : Lower(options[i]) = Lower(token)
      THEN options[CHOOSE i \in DOMAIN options :
                     /\ Lower(options[i]) = Lower(token)
                     /\ \A j \in (i + 1)..Len(options) :
                          Lower(options[j]) # Lower(token)]
      ELSE None

\* chosen, for one token
ChooseFor(options, token) ==
    IF LowerMapGet(options, token) # None
      THEN LowerMapGet(options, token)
      ELSE _best_option(token, options)

\* the loop over a list value: vals
RECURSIVE ChooseEach(_, _, _)
ChooseEach(options, value, vals) ==
    IF value = << >> THEN vals
    ELSE LET chosen == ChooseFor(options, Head(value))
         IN  ChooseEach(options, Tail(value),
               IF chosen # S0 /\ chosen \notin Range(vals)
                 THEN Append(vals, chosen) ELSE vals)

\* " ".join(value.split())
JoinWords(q) ==
    IF q = << >> THEN S0
    ELSE LET RECURSIVE J(_)
             J(r) == IF Len(r) = 1 THEN r[1] ELSE r[1] \o <<" ">> \o J(Tail(r))
         IN  J(q)

\* by_name[name]: the last schema field of that name, 0 when there is none
ByName(schema_fields, name) ==
    IF \E i \in DOMAIN schema_fields : schema_fields[i].name = name
      THEN CHOOSE i \in DOMAIN schema_fields :
             /\ schema_fields[i].name = name
             /\ \A j \in (i + 1)..Len(schema_fields) : schema_fields[j].name # name
      ELSE 0

\* the value validate_and_normalize stores for one item
NormalizeValue(options, value) ==
    IF options # << >> THEN
      IF value.t = "list"
        THEN PyList(ChooseEach(options, value.v, << >>))
        ELSE PyStr(ChooseFor(options, StrOf(value)))
    ELSE IF value.t = "str" THEN PyStr(JoinWords(SplitWs(value.v[1])))
    ELSE value

\* validate_and_normalize(fields_schema, llm_yaml): the items whose name
\* the schema has, each with the schema's role and the normalized value
RECURSIVE validate_and_normalize(_, _)
validate_and_normalize(schema_fields, items) ==
    IF items = << >> THEN << >>
    ELSE LET item == Head(items)
             k == ByName(schema_fields, item.name)
             rest == validate_and_normalize(schema_fields, Tail(items))
         IN  IF item.name = S0 \/ k = 0 THEN rest
             ELSE << [ name |-> item.name, role |-> schema_fields[k].role,
                       value |-> NormalizeValue(schema_fields[k].options, item.value) ] >>
                  \o rest

---------------------------------------------------------------------------
(* Value planning (main.py, collect_form_labels, lines 499-611) *)

\* f"{r}|{n}": the roles are words without "|", so the string determines
\* the pair and the pair stands for it
Key(r, n) == <<r, n>>

\* A dict as a function; d.get(k), with Absent for a missing key
Absent == [ t |-> "absent", v |-> << >> ]

DictGet(d, k) == IF k \in DOMAIN d THEN d[k] ELSE Absent

\* d[k] = v
DictPut(d, k, v) == [ x \in DOMAIN d \cup { k } |-> IF x = k THEN v ELSE d[x] ]

EmptyDict == [ x \in { } |-> Absent ]

\* the loop that builds answers_map from the entries of the answers
\* document: an entry counts when its role and name are non-empty and its
\* value is not null; a later entry replaces an earlier one of its key
RECURSIVE BuildAnswersMap(_, _)
BuildAnswersMap(entries, answers_map) ==
    IF entries = << >> THEN answers_map
    ELSE LET f == Head(entries)
         IN  BuildAnswersMap(Tail(entries),
               IF f.role # "" /\ f.name # S0 /\ f.value.t # "none"
                 THEN DictPut(answers_map, Key(f.role, f.name), f.value)
                 ELSE answers_map)

\* ", ".join(items)
RECURSIVE JoinComma(_)
JoinComma(items) ==
    IF items = << >> THEN S0
    ELSE IF Len(items) = 1 THEN items[1]
    ELSE items[1] \o Str(", ") \o JoinComma(Tail(items))

\* the first of the candidates that is one of the options, None when none is
FirstCandidate(cands, options) ==
    FirstFlagged(cands, [ i \in DOMAIN cands |-> cands[i] \in Range(options) ])

ContainsAny(s, words) == \E w \in words : Contains(s, Str(w))

\* rdict.get(k, ""): a resume answer, "" when the profile does not give it
ResumeGet(rdict, k) == IF k \in DOMAIN rdict THEN rdict[k] ELSE S0

\* the mapping of heard_about_us values to options
HeardMapping(heard) ==
    CASE heard = Str("company_website") -> Str("Datadog's Careers Page")
      [] heard = Str("github") -> Str("Github")
      [] heard = Str("hacker_news") -> Str("Hacker News")
      [] heard = Str("linkedin") -> Str("LinkedIn (Job Posting)")
      [] OTHER -> None

DEFAULT_TOPN == 3

\* a mapping that does not read the work status of the profile: every work
\* authorization question is answered as by someone needing sponsorship now
_map_resume_value_needs_now(field_name, role, options, rdict) ==
    LET now == FirstCandidate(<<Str("No, I need sponsorship now."), Str("No")>>, options)
    IN  IF ContainsAny(Lower(field_name), { "authoris", "authoriz", "visa", "sponsor",
                                            "work permit", "eligib" }) /\ now # None
          THEN now
          ELSE S0

\* a mapping that answers every field from the cities of the profile
_map_resume_value_cities(field_name, role, options, rdict) ==
    IF "cities" \in DOMAIN rdict THEN JoinComma(rdict["cities"]) ELSE S0

\* _map_resume_value(field_name, role, options, rdict); rdict holds the
\* strings work_visa_status and heard_about_us, the list cities
\* (location_preference_city_ordered) and the number topn
\* (location_preference_top_selections, 0 when not given)
_map_resume_value(field_name, role, options, rdict) ==
    LET n == Lower(field_name)
        status == Lower(ResumeGet(rdict, "work_visa_status"))
        unrestricted == FirstCandidate(
            <<Str("Yes, no restriction."), Str("Yes, no restriction"), Str("Yes")>>,
            options)
        later == FirstCandidate(
            <<Str("Yes, but I will need sponsorship in the future."),
              Str("Yes, but I will need sponsorship in the future")>>, options)
        now == FirstCandidate(<<Str("No, I need sponsorship now."), Str("No")>>, options)
        cities == IF "cities" \in DOMAIN rdict THEN rdict["cities"] ELSE << >>
        topn == IF "topn" \in DOMAIN rdict /\ rdict["topn"] # 0
                  THEN rdict["topn"] ELSE DEFAULT_TOPN
        heard == Lower(ResumeGet(rdict, "heard_about_us"))
        desired == HeardMapping(heard)
        safe == FirstCandidate(
            <<Str("Datadog's Careers Page"), Str("Github"), Str("Hacker News"),
              Str("LinkedIn (Job Posting)")>>, options)
    IN  IF ContainsAny(n, { "authoris", "authoriz", "visa", "sponsor",
                            "work permit", "eligib" }) THEN
          IF options # << >> THEN
            IF ContainsAny(status, { "citizen", "permanent", "no sponsorship",
                                     "authorized" }) /\ unrestricted # None
              THEN unrestricted
            ELSE IF ContainsAny(status, { "future", "will need", "student", "opt",
                                          "stem" }) /\ later # None
              THEN later
            ELSE IF now # None THEN now
            ELSE S0
          ELSE IF role \in { "combobox", "listbox" } THEN Str("Yes, no restriction.")
          ELSE IF role \in { "radiogroup", "group" } THEN Str("Yes")
          ELSE S0
        ELSE IF \/ Contains(n, Str("what cities"))
                \/ Contains(n, Str("available to work"))
                \/ (role \in TEXT_INPUT_ROLES
                      /\ (Contains(n, Str("city")) \/ Contains(n, Str("cities")))) THEN
          IF cities # << >>
            THEN JoinComma(SubSeq(cities, 1, IF topn < Len(cities) THEN topn ELSE Len(cities)))
            ELSE S0
        ELSE IF Contains(n, Str("how did you hear")) THEN
          IF desired # None /\ desired \in Range(options) THEN desired
          ELSE IF safe # None THEN safe
          ELSE IF options # << >> THEN options[1]
          ELSE S0
        ELSE S0

\* _resume_answers_dict merges the one-key items of the profile's answers
\* list into one dict; the model keeps a loaded profile as that dict:
\* resume_data is [loaded, answers], loaded FALSE for resume_data None
\* (no resume file, or one that does not parse)
resume_answers_of(resume_data) ==
    IF resume_data.loaded THEN resume_data.answers ELSE EmptyDict

\* the planning order with the resume-derived value ahead of the prior answer
PlannedValueResumeFirst(f, answers_map, resume_data) ==
    LET key == Key(f.role, f.name)
        derived == IF resume_data.loaded
                     THEN _map_resume_value(f.name, f.role, f.options,
                                            resume_answers_of(resume_data))
                     ELSE S0
    IN  IF derived # S0 THEN PyStr(derived)
        ELSE IF key \in DOMAIN answers_map THEN answers_map[key]
        ELSE f.example

\* the value planned for one descriptor f (the body of the loop at 597-611)
PlannedValue(f, answers_map, resume_data) ==
    LET key == Key(f.role, f.name)
        derived == IF resume_data.loaded
                     THEN _map_resume_value(f.name, f.role, f.options,
                                            resume_answers_of(resume_data))
                     ELSE S0
    IN  IF key \in DOMAIN answers_map THEN answers_map[key]
        ELSE IF derived # S0 THEN PyStr(derived)
        ELSE f.example

\* the loop that builds fields_for_fill over the fields of use_fields_doc
RECURSIVE BuildFieldsForFill(_, _, _, _)
BuildFieldsForFill(fields, answers_map, resume_data, acc) ==
    IF fields = << >> THEN acc
    ELSE BuildFieldsForFill(Tail(fields), answers_map, resume_data,
           DictPut(acc, Key(Head(fields).role, Head(fields).name),
                   PlannedValue(Head(fields), answers_map, resume_data)))

---------------------------------------------------------------------------
(* The focus walker: value and page helpers (main.py, collect_form_labels) *)

\* the items of a list as Python prints them: 'a', 'b'
RECURSIVE ReprItems(_)
ReprItems(q) ==
    IF q = << >> THEN S0
    ELSE Str("'") \o q[1] \o Str("'")
           \o (IF Len(q) > 1 THEN Str(", ") \o ReprItems(Tail(q)) ELSE S0)

\* str(x) of a planned value
str_of(value) ==
    CASE value.t = "str" -> value.v[1]
      [] value.t = "list" -> Str("[") \o ReprItems(value.v) \o Str("]")
      [] OTHER -> Str("None")

\* bool(x) of a planned value
Truthy(value) ==
    \/ value.t = "str" /\ value.v[1] # S0
    \/ value.t = "list" /\ value.v # << >>

\* ex = (entry.get("value") if entry else "") or ""
ExOf(entry) == IF entry.t # "absent" /\ Truthy(entry) THEN entry ELSE PyStr(S0)

alt_roles == <<"listbox", "combobox", "radiogroup", "group">>

\* entry = fields_for_fill.get(key), and failing that the entry of the
\* first container role under the last container label (lines 683-689)
EntryFor(plan, field_key, container_label) ==
    LET own == DictGet(plan, field_key)
        alt(i) == DictGet(plan, Key(alt_roles[i], container_label))
    IN  IF own.t # "absent" \/ container_label \in { None, S0 } THEN own
        ELSE IF \E i \in DOMAIN alt_roles : alt(i).t # "absent"
          THEN alt(CHOOSE i \in DOMAIN alt_roles :
                     alt(i).t # "absent" /\ \A j \in 1..(i - 1) : alt(j).t = "absent")
          ELSE Absent

\* page.accessibility.snapshot(): the tree of the page with the focused
\* flag on the node that has focus (focus 0: no node has it)
Snapshot(tree, at) ==
    SubSeq([ i \in DOMAIN tree |-> [ tree[i] EXCEPT !.focused = (i = at) ] ],
           1, Len(tree))

\* raw_label = container_label or (name if name else "<unlabeled-field>")
RawLabel(container_label, name) ==
    IF container_label # S0 THEN container_label
    ELSE IF name # S0 THEN name
    ELSE Str("<unlabeled-field>")

\* the loop test with a strict comparison
LoopClosedStrict(stable_label, first, unique, seen, threshold) ==
    /\ stable_label = first
    /\ Cardinality(unique) > threshold
    /\ Cardinality(seen) >= 1

\* the loop test asking for more recorded labels than the threshold
LoopClosedManySeen(stable_label, first, unique, seen, threshold) ==
    /\ stable_label = first
    /\ Cardinality(unique) >= threshold
    /\ Cardinality(seen) > threshold

\* the loop test of line 656
LoopClosed(stable_label, first, unique, seen, threshold) ==
    /\ stable_label = first
    /\ Cardinality(unique) >= threshold
    /\ Cardinality(seen) >= 1

\* a loop bound that lets one more iteration through
RangeExhaustedLate(i, n) == i > n

\* for _ in range(max_tabs): no iteration is left after i of them
RangeExhausted(i, n) == i >= n

RADIO_MAX_TRIES == 6

STUCK_LIMIT == 3

\* a stuck test that never fires
StuckNever(count) == FALSE

\* a stuck test that gives up one repeat earlier
StuckEarly(count) == count >= STUCK_LIMIT - 1

\* if stuck_count >= 3
Stuck(count) == count >= STUCK_LIMIT

\* an empty report condition: always write
ReportAlways(events, reason) == TRUE

\* if fill_events or ended_reason is not None
ReportDue(events, reason) == events # << >> \/ reason # "None"

multi_label_words ==
    { "cities", "skills", "technolog", "languages", "keywords", "locations",
      "select one or more" }

\* looks_multi_label
looks_multi_label(label_text) == ContainsAny(Lower(label_text), multi_label_words)

\* re.search(r",|;|\band\b", str(ex), flags=re.IGNORECASE), True for a list
has_multi_delims(ex) ==
    \/ ex.t = "list"
    \/ Contains(str_of(ex), Str(","))
    \/ Contains(str_of(ex), Str(";"))
    \/ HasWord(Lower(str_of(ex)), Str("and"))

\* multi-value by the label or by the shape of the value
is_multi_value_either(ex, label_text) ==
    Truthy(ex) /\ (looks_multi_label(label_text) \/ has_multi_delims(ex))

\* is_multi_value (lines 701-714)
is_multi_value(ex, label_text) ==
    Truthy(ex) /\ looks_multi_label(label_text) /\ has_multi_delims(ex)

\* the length of the delimiter  , | ; | \band\b  of s at position i, 0
\* when none starts there (re.split is called without IGNORECASE)
DelimAt(s, i) ==
    IF s[i] \in { ",", ";" } THEN 1
    ELSE IF OccursAt(s, Str("and"), i) /\ BoundaryAt(s, i) /\ BoundaryAt(s, i + 3) THEN 3
    ELSE 0

\* re.split(r",|;|\band\b", s): start is where the current piece begins
RECURSIVE SplitFrom(_, _, _)
SplitFrom(s, start, i) ==
    IF i > Len(s) THEN <<SubSeq(s, start, Len(s))>>
    ELSE IF DelimAt(s, i) > 0
      THEN <<SubSeq(s, start, i - 1)>>
             \o SplitFrom(s, i + DelimAt(s, i), i + DelimAt(s, i))
      ELSE SplitFrom(s, start, i + 1)

\* the stripped non-empty members of q
NonEmptyStripped(q) == SelectSeq(StripEach(q), LAMBDA x : x # S0)

\* pieces (lines 718-721)
Pieces(ex) ==
    IF ex.t = "list" THEN NonEmptyStripped(ex.v)
    ELSE NonEmptyStripped(SplitFrom(str_of(ex), 1, 1))

\* the _best_option local to the chip input (lines 731-775): as
\* ai-form's, but the stripped token itself when no stage matches
_best_option_local(token, opts) ==
    LET t == Strip(token)
    IN  IF opts = << >> THEN t
        ELSE IF SynonymOf(Lower(t), opts) # None THEN SynonymOf(Lower(t), opts)
        ELSE IF FuzzyOption(t, opts) # None THEN FuzzyOption(t, opts)
        ELSE t

\* the members of q whose flag is set, in order
Flagged(q, flags) ==
    LET idx == SelectSeq([ i \in DOMAIN q |-> i ], LAMBDA i : flags[i])
    IN  SubSeq([ k \in DOMAIN idx |-> q[idx[k]] ], 1, Len(idx))

\* values = [str(v) for v in (ex if isinstance(ex, list) else [ex])]
SelectValues(ex) == IF ex.t = "list" THEN ex.v ELSE <<str_of(ex)>>

\* the EventRecords of the walker
TypedEvent(label_text, ex, confirmed) ==
    [ field |-> label_text, kind |-> "typed",
      value |-> IF Truthy(ex) THEN str_of(ex) ELSE S0,
      multi |-> FALSE, tokens |-> << >>, confirmed |-> confirmed ]

\* an event that logs the tokens typed in place of the intended value
TokensEventMapped(label_text, ex, tokens_committed, confirmed) ==
    [ field |-> label_text, kind |-> "typed", value |-> JoinComma(tokens_committed),
      multi |-> TRUE, tokens |-> tokens_committed, confirmed |-> confirmed ]

TokensEvent(label_text, ex, tokens_committed, confirmed) ==
    [ field |-> label_text, kind |-> "typed", value |-> str_of(ex),
      multi |-> TRUE, tokens |-> tokens_committed, confirmed |-> confirmed ]

SelectedEvent(label_text, desired, confirmed) ==
    [ field |-> label_text, kind |-> "selected", value |-> desired,
      multi |-> FALSE, tokens |-> << >>, confirmed |-> confirmed ]

\* the loop appending an event only where a selection went through
SelectedEventsConfirmedOnly(label_text, values, outcomes) ==
    Flagged([ i \in DOMAIN values |-> SelectedEvent(label_text, values[i], outcomes[i]) ],
            [ i \in DOMAIN values |-> outcomes[i] # "None" ])

\* the events of the combobox / listbox loop, one per value, in order
SelectedEvents(label_text, values, outcomes) ==
    SubSeq([ i \in DOMAIN values |-> SelectedEvent(label_text, values[i], outcomes[i]) ],
           1, Len(values))

PyBool(b) == IF b THEN "True" ELSE "False"

\* the status words of the radio fallbacks (lines 882-894)
unrestricted_words == { "citizen", "permanent", "authorized" }

sponsorship_words == { "future", "will need", "student", "opt", "stem" }

\* the radio target with the yes/no answer kept for the option set {Yes, No}
RadioTargetExact(ex, tree, node, ancestors, plan, resume_data) ==
    LET own == str_of(ex)
        c == _nearest_container(tree, node, ancestors)
        clabel == c.label
        name == _norm_text(tree[node].name)
        rg == DictGet(plan, Key("radiogroup", clabel))
        centry == IF rg.t # "absent" THEN rg ELSE DictGet(plan, Key("group", clabel))
        planned == IF clabel # S0 /\ centry.t # "absent" /\ Truthy(centry)
                     THEN str_of(centry) ELSE S0
        rdict == resume_answers_of(resume_data)
        opts == _collect_options_for_container(tree, c.container).options
        YesNo == <<Str("Yes"), Str("No")>>
        mapped == _map_resume_value(IF clabel # S0 THEN clabel ELSE name, "radiogroup",
                                    IF opts # << >> THEN opts ELSE YesNo, rdict)
        status == Lower(ResumeGet(rdict, "work_visa_status"))
        derived ==
            IF mapped = S0 /\ opts # << >> /\ Range(YesNo) = Range(opts) THEN
              IF ContainsAny(status, unrestricted_words) THEN Str("Yes")
              ELSE IF ContainsAny(status, sponsorship_words) THEN Str("No")
              ELSE mapped
            ELSE mapped
        desired == IF ContainsAny(status, unrestricted_words) THEN Str("Yes") ELSE S0
    IN  IF own # S0 THEN [ target |-> own, toggled |-> FALSE ]
        ELSE IF planned # S0 THEN [ target |-> planned, toggled |-> FALSE ]
        ELSE IF ~resume_data.loaded THEN [ target |-> S0, toggled |-> FALSE ]
        ELSE IF derived # S0 THEN [ target |-> derived, toggled |-> FALSE ]
        ELSE [ target |-> S0, toggled |-> desired # S0 /\ name = desired ]

\* the target of a radio (lines 864-906): [target, toggled]; toggled is
\* the last resort, Space on a radio named Yes, which leaves no target
RadioTarget(ex, tree, node, ancestors, plan, resume_data) ==
    LET own == str_of(ex)
        c == _nearest_container(tree, node, ancestors)
        clabel == c.label
        name == _norm_text(tree[node].name)
        rg == DictGet(plan, Key("radiogroup", clabel))
        centry == IF rg.t # "absent" THEN rg ELSE DictGet(plan, Key("group", clabel))
        planned == IF clabel # S0 /\ centry.t # "absent" /\ Truthy(centry)
                     THEN str_of(centry) ELSE S0
        rdict == resume_answers_of(resume_data)
        opts == _collect_options_for_container(tree, c.container).options
        YesNo == <<Str("Yes"), Str("No")>>
        mapped == _map_resume_value(IF clabel # S0 THEN clabel ELSE name, "radiogroup",
                                    IF opts # << >> THEN opts ELSE YesNo, rdict)
        status == Lower(ResumeGet(rdict, "work_visa_status"))
        derived ==
            IF mapped = S0 /\ opts # << >> /\ Range(YesNo) \subseteq Range(opts) THEN
              IF ContainsAny(status, unrestricted_words) THEN Str("Yes")
              ELSE IF ContainsAny(status, sponsorship_words) THEN Str("No")
              ELSE mapped
            ELSE mapped
        desired == IF ContainsAny(status, unrestricted_words) THEN Str("Yes") ELSE S0
    IN  IF own # S0 THEN [ target |-> own, toggled |-> FALSE ]
        ELSE IF planned # S0 THEN [ target |-> planned, toggled |-> FALSE ]
        ELSE IF ~resume_data.loaded THEN [ target |-> S0, toggled |-> FALSE ]
        ELSE IF derived # S0 THEN [ target |-> derived, toggled |-> FALSE ]
        ELSE [ target |-> S0, toggled |-> desired # S0 /\ name = desired ]

\* yaml.safe_dump / safe_load of the scanned descriptors (lines 474-497):
\* the fields document the planning reads
FieldsDoc(fields) ==
    SubSeq([ i \in DOMAIN fields |->
               [ role |-> fields[i].role, name |-> fields[i].name,
                 options |-> fields[i].options,
                 example |-> PyStr(fields[i].example) ] ], 1, Len(fields))

---------------------------------------------------------------------------
(* State *)

VARIABLES
    pc,          \* the step the program is at
    ax_full,     \* the snapshot handed to the scan
    all_fields,  \* the descriptors the scan returned
    fields_schema,  \* validate_and_normalize: the fields of the schema
    llm_yaml,       \* validate_and_normalize: the items of the answer document
    normalized,     \* validate_and_normalize: the list returned
    use_fields_doc, \* planning: the descriptors of the fields document
    ans_doc,        \* planning: the entries of the answers document
    resume_data,    \* planning: the resume profile
    fields_for_fill, \* planning: the value planned for each role|name key
    max_tabs,               \* walker: the iteration ceiling
    loop_detect_threshold,  \* walker: the loop detection threshold
    page,                   \* the accessibility tree of the page
    focus,                  \* the node of the page that has focus, 0 for none
    labels, seen_keys, seen_labels, last_container_label,
    visited,                \* history: the editable nodes the loop has come to
    snaps,                  \* history: the key of the loop's latest snapshot, and how many snapshots in a row returned it
    field_options, field_roles, field_buttons,
    first_stable_label, unique_stable_labels,
    fill_events,
    tabs_sent, stuck_count, last_key,
    ended_reason, backtracked,
    iter,                   \* the iterations of the for loop that are over
    key,                    \* the key of the iteration, NoKey for None
    field,                  \* label_text, ex and role of the field being filled
    target, tries, curr_name,  \* the radio navigation
    fill_log,               \* the fill report written, NoLog for none
    shift_tabs,             \* history: the Shift+Tab presses issued
    arrow_presses,          \* history: the ArrowDown presses of the iteration
    clean,                  \* history: every browser call so far did what was asked
    prev_container,         \* history: the container label of the editable node focused last
    events_before,          \* history: the number of events when the iteration began
    space_presses,          \* history: the Space presses of the iteration
    select_outcomes,        \* history: how the option selections of the iteration went
    chip_outcomes,          \* history: how the chip input of the iteration went, << >> for none
    text_outcomes,          \* history: how the single-value fill of the iteration went, << >> for none
    clock,                  \* parallel runs: the second the wall clock shows
    files,                  \* parallel runs: the content of each file written, by path
    run,                    \* parallel runs: job, directory, position, ts and result of each run
    focused_node,           \* what _find_focused_node returned for the tree
    nearest,                \* what _nearest_container returned for that node
    map_args,               \* the field and the profile handed to _map_resume_value
    derived,                \* what _map_resume_value returned for them
    site,                   \* ScrapeWorkflow: the site of the iteration
    scrape_ids,             \* ScrapeWorkflow: the ids collected
    leased_count,           \* ScrapeWorkflow: the number of sites leased
    summary,                \* ScrapeWorkflow: the ScrapeSummary returned
    leases,                 \* history: what was done for each site leased
    leased,                 \* starter loop: the queue item leased
    queue_id,               \* FormFillWorkflow: its first argument
    job_url,                \* FormFillWorkflow: its second argument
    user_id,                \* FormFillWorkflow: its third argument
    fill_result,            \* FormFillWorkflow: the FormFillResult returned
    fill_calls              \* history: the activities invoked, with argument and outcome

scanVars == <<ax_full, all_fields>>

normVars == <<fields_schema, llm_yaml, normalized>>

planVars == <<use_fields_doc, ans_doc, resume_data, fields_for_fill>>

cfgVars == <<max_tabs, loop_detect_threshold>>

pageVars == <<page, focus>>

recVars ==
    <<labels, seen_keys, seen_labels, last_container_label,
      field_options, field_roles, field_buttons>>

loopVars == <<first_stable_label, unique_stable_labels, visited, snaps>>

stopVars == <<ended_reason, backtracked, shift_tabs>>

advVars == <<tabs_sent, stuck_count, last_key, iter, events_before>>

radioVars == <<target, tries, curr_name, arrow_presses, space_presses>>

walkVars ==
    <<cfgVars, pageVars, recVars, loopVars, stopVars, advVars, radioVars,
      key, field, fill_events, fill_log, clean, prev_container, select_outcomes, chip_outcomes, text_outcomes>>

parVars == <<clock, files, run>>

treeVars == <<focused_node, nearest>>

mapVars == <<map_args, derived>>

scrapeVars == <<site, scrape_ids, leased_count, summary, leases>>

fillVars == <<leased, queue_id, job_url, user_id, fill_result, fill_calls>>

wfVars == <<scrapeVars, fillVars>>

\* the variables of the tree functions and of the workflows
auxVars == <<treeVars, mapVars, wfVars>>

vars == <<pc, scanVars, normVars, planVars, walkVars, parVars, auxVars>>

\* the values of the variables a specification does not use
ScanIdle == ax_full = << >> /\ all_fields = << >>

NormIdle == fields_schema = << >> /\ llm_yaml = << >> /\ normalized = << >>

PlanIdle ==
    /\ use_fields_doc = << >>
    /\ ans_doc = << >>
    /\ resume_data = [ loaded |-> FALSE, answers |-> EmptyDict ]
    /\ fields_for_fill = EmptyDict

NoKey == <<"", S0>>

NoSnaps == [ key |-> NoKey, run |-> 0 ]

\* the history after a snapshot that returned the key k
SnapsAfter(k) ==
    [ key |-> k, run |-> IF snaps.run > 0 /\ snaps.key = k THEN snaps.run + 1 ELSE 1 ]

NoField == [ label_text |-> S0, ex |-> PyStr(S0), role |-> "" ]

NoLog == [ written |-> FALSE ]

\* lines 382-387 and 628-636: the walker's variables before the loop
WalkStart ==
    /\ labels = << >>
    /\ seen_keys = { }
    /\ seen_labels = { }
    /\ last_container_label = None
    /\ field_options = EmptyDict
    /\ field_roles = EmptyDict
    /\ field_buttons = EmptyDict
    /\ first_stable_label = None
    /\ unique_stable_labels = { }
    /\ visited = { }
    /\ snaps = NoSnaps
    /\ fill_events = << >>
    /\ tabs_sent = 0
    /\ stuck_count = 0
    /\ last_key = NoKey
    /\ ended_reason = "None"
    /\ backtracked = FALSE
    /\ iter = 0
    /\ key = NoKey
    /\ field = NoField
    /\ target = S0
    /\ tries = 0
    /\ curr_name = S0
    /\ fill_log = NoLog
    /\ shift_tabs = 0
    /\ arrow_presses = 0
    /\ clean = TRUE
    /\ prev_container = None
    /\ events_before = 0
    /\ space_presses = 0
    /\ select_outcomes = << >>
    /\ chip_outcomes = << >>
    /\ text_outcomes = << >>

WalkIdle ==
    /\ max_tabs = 0
    /\ loop_detect_threshold = 0
    /\ page = << >>
    /\ focus = 0
    /\ WalkStart

ParIdle == clock = 0 /\ files = << >> /\ run = << >>

NoNode == [ found |-> 0, anc |-> << >> ]

NoContainer == [ container |-> 0, label |-> S0 ]

TreeIdle == focused_node = NoNode /\ nearest = NoContainer

NoArgs == [ field_name |-> S0, role |-> "", options |-> << >>, rdict |-> EmptyDict ]

MapIdle == map_args = NoArgs /\ derived = S0

NoSite == ""

NoSummary == [ site_count |-> 0, scrape_ids |-> << >> ]

ScrapeIdle ==
    /\ site = NoSite
    /\ scrape_ids = << >>
    /\ leased_count = 0
    /\ summary = NoSummary
    /\ leases = << >>

NoItem == [ _id |-> "", jobUrl |-> "", userId |-> "" ]

NoResult == [ queue_id |-> "", status |-> "" ]

FillIdle ==
    /\ leased = NoItem
    /\ queue_id = ""
    /\ job_url = ""
    /\ user_id = ""
    /\ fill_result = NoResult
    /\ fill_calls = << >>

WfIdle == ScrapeIdle /\ FillIdle

AuxIdle == TreeIdle /\ MapIdle /\ WfIdle

---------------------------------------------------------------------------
(* The scan on every small tree *)

MaxScanNodes == 3

\* the (role, name) pairs the nodes of the scanned trees are drawn from
ScanKinds ==
    { <<"textbox", Str("A")>>, <<"textbox", Str("A ")>>, <<"textbox", Str("B")>>,
      <<"group", Str("L")>>, <<"radio", Str("Y")>>,
      <<"listbox", Str("L")>>, <<"option", Str("X")>>,
      <<"combobox", Str(" L")>> }

ScanRoots == { <<"WebArea", S0>>, <<"group", Str("L")>> }

\* the roles whose nodes have children in the scanned trees
ParentRoles == { "WebArea", "group", "radiogroup", "form", "listbox", "combobox" }

ScanInit ==
    /\ pc = "render"
    /\ \/ ax_full = << >>
       \/ \E k \in ScanRoots : ax_full = <<Node(k[1], k[2], S0, 0)>>
    /\ all_fields = << >>
    /\ NormIdle
    /\ PlanIdle
    /\ WalkIdle
    /\ ParIdle
    /\ AuxIdle

\* the page renders one more node, under any node that can hold children,
\* before the snapshot is taken
PageAddsNode ==
    /\ pc = "render"
    /\ Len(ax_full) <= MaxScanNodes
    /\ \E k \in ScanKinds, p \in DOMAIN ax_full :
         /\ ax_full[p].role \in ParentRoles
         /\ ax_full' = Append(ax_full, Node(k[1], k[2], S0, p))
    /\ UNCHANGED <<pc, all_fields, normVars, planVars, walkVars, parVars, auxVars>>

\* a scan that takes the nodes it has read out of the tree
ScanFieldsConsuming ==
    /\ pc = "render"
    /\ all_fields' = _scan_all_fields(ax_full)
    /\ ax_full' = IF ax_full = << >> THEN << >> ELSE <<Head(ax_full)>>
    /\ pc' = "scanned"
    /\ UNCHANGED <<normVars, planVars, walkVars, parVars, auxVars>>

\* all_fields = _scan_all_fields(ax_full)
ScanFields ==
    /\ pc = "render"
    /\ all_fields' = _scan_all_fields(ax_full)
    /\ pc' = "scanned"
    /\ UNCHANGED <<ax_full, normVars, planVars, walkVars, parVars, auxVars>>

\* the same snapshot is scanned once more (a fill run after a scan-only
\* run of the same page)
ScanAgain ==
    /\ pc = "scanned"
    /\ all_fields' = _scan_all_fields(ax_full)
    /\ pc' = "rescanned"
    /\ UNCHANGED <<ax_full, normVars, planVars, walkVars, parVars, auxVars>>

ScanNext == PageAddsNode \/ ScanFields \/ ScanAgain

SpecScan == ScanInit /\ [][ScanNext]_vars

---------------------------------------------------------------------------
(* validate_and_normalize on small schemas and answer documents *)

MaxOptions == 2

MaxAnswerList == 2

NormOptionPool ==
    { Str("New York"), Str("San Jose (Campbell)"), Str("Seattle"),
      Str("SEATTLE"), Str("No") }

NormTokenPool ==
    { Str("New York City"), Str("Mountain View"), Str("seattle"),
      Str("San Jose"), Str("York Seattle"), Str("zzz"), S0 }

\* the sequences over pool of length at most n
RECURSIVE SeqsUpTo(_, _)
SeqsUpTo(pool, n) ==
    IF n = 0 THEN { << >> }
    ELSE SeqsUpTo(pool, n - 1)
           \cup { Append(q, x) : q \in { r \in SeqsUpTo(pool, n - 1) : Len(r) = n - 1 },
                                 x \in pool }

NormAnswers ==
    { PyNone } \cup { PyStr(x) : x \in NormTokenPool }
      \cup { PyList(q) : q \in SeqsUpTo(NormTokenPool, MaxAnswerList) }

\* the option list of the city question of test_ai_form_normalization.py
CityOptions ==
    << Str("Amsterdam"), Str("New York"), Str("San Jose (Campbell)"), Str("Seattle") >>

\* A schema as the scan writes it: one field named Q with options (a short
\* list over the pool, or the city list), alone or after a text field of
\* the same name; the answer document answers Q and a field the schema
\* does not have.
NormInit ==
    /\ pc = "normalize"
    /\ \E options \in SeqsUpTo(NormOptionPool, MaxOptions) \cup { CityOptions },
          shadowed \in BOOLEAN :
         fields_schema =
           (IF shadowed
              THEN << [ name |-> Str("Q"), role |-> "textbox", options |-> << >> ] >>
              ELSE << >>)
           \o << [ name |-> Str("Q"), role |-> "listbox", options |-> options ] >>
    /\ \E value \in NormAnswers :
         llm_yaml = << [ name |-> Str("Q"), role |-> "combobox", value |-> value ],
                       [ name |-> Str("Other"), role |-> "textbox",
                         value |-> PyStr(Str("x")) ] >>
    /\ normalized = << >>
    /\ ScanIdle
    /\ PlanIdle
    /\ WalkIdle
    /\ ParIdle
    /\ AuxIdle

\* out = validate_and_normalize(fields_schema, llm_yaml)
Normalize ==
    /\ pc = "normalize"
    /\ normalized' = validate_and_normalize(fields_schema, llm_yaml)
    /\ pc' = "normalized"
    /\ UNCHANGED <<fields_schema, llm_yaml, scanVars, planVars, walkVars, parVars, auxVars>>

NormNext == Normalize

SpecNorm == NormInit /\ [][NormNext]_vars

\* the field of the schema an item of the answer document answers
SchemaFieldOf(item) ==
    fields_schema[CHOOSE i \in DOMAIN fields_schema :
                    /\ fields_schema[i].name = item.name
                    /\ fields_schema[i].options # << >>]

HasOptionField(item) ==
    \E i \in DOMAIN fields_schema :
        fields_schema[i].name = item.name /\ fields_schema[i].options # << >>

\* C10: validate_and_normalize never fails to choose: for every answered
\* schema field with a non-empty option list, the normalized scalar value
\* is a member of the list, and every element of a normalized list value
\* is a member of the list and occurs in the value once.
C10_AlwaysAnOption ==
    pc = "normalized" =>
      \A k \in DOMAIN llm_yaml :
        HasOptionField(llm_yaml[k]) =>
          \E n \in DOMAIN normalized :
            /\ normalized[n].name = llm_yaml[k].name
            /\ normalized[n].value.t = (IF llm_yaml[k].value.t = "list"
                                          THEN "list" ELSE "str")
            /\ \A i \in DOMAIN normalized[n].value.v :
                 normalized[n].value.v[i] \in Range(SchemaFieldOf(llm_yaml[k]).options)
            /\ \A i, j \in DOMAIN normalized[n].value.v :
                 i # j => normalized[n].value.v[i] # normalized[n].value.v[j]

\* an answer that matches no option by any stage is given the first option,
\* and a list answer whose tokens meet in one option is given it once
C10_Witness ==
    /\ pc = "normalized"
    /\ Len(fields_schema) = 2
    /\ \/ /\ llm_yaml[1].value = PyStr(Str("zzz"))
          /\ Len(fields_schema[2].options) = 2
          /\ normalized[1].value = PyStr(fields_schema[2].options[1])
       \/ /\ llm_yaml[1].value = PyList(<<Str("San Jose"), Str("Mountain View")>>)
          /\ normalized[1].value = PyList(<<Str("San Jose (Campbell)")>>)

\* the options the item answered, and the token of its scalar answer
AnsweredOptions == SchemaFieldOf(llm_yaml[1]).options

AnsweredToken == StrOf(llm_yaml[1].value)

\* the options, by index, that a stage of the matching order accepts for
\* the token: 1 equal but for letter case, 2 named by the synonym table,
\* 3 equal in canonical form, 4 containing or contained in canonical form,
\* 5 sharing a word of the canonical form, 6 any
StageHits(stage, token, options) ==
    LET t == Strip(token)
        tlc == canon(t)
    IN  { i \in DOMAIN options :
            CASE stage = 1 -> Lower(options[i]) = Lower(token)
              [] stage = 2 -> <<Lower(t), options[i]>> \in synonyms
              [] stage = 3 -> canon(options[i]) = tlc
              [] stage = 4 -> \/ Contains(canon(options[i]), tlc)
                              \/ Contains(tlc, canon(options[i]))
              [] stage = 5 -> Overlap(tlc, canon(options[i])) > 0
              [] OTHER -> TRUE }

\* the first stage that accepts an option
FirstStage(token, options) ==
    CHOOSE stage \in 1..6 :
        /\ StageHits(stage, token, options) # { }
        /\ \A earlier \in 1..(stage - 1) : StageHits(earlier, token, options) = { }

\* the option of the accepted ones a stage returns: the earliest, but of
\* those with the highest overlap in stage 5, and any of those equal but for
\* letter case in stage 1
StageResult(stage, token, options, o) ==
    LET hits == StageHits(stage, token, options)
        tlc == canon(Strip(token))
        score(i) == Overlap(tlc, canon(options[i]))
    IN  \E i \in hits :
          /\ o = options[i]
          /\ stage \in { 2, 3, 4, 6 } => \A j \in hits : i <= j
          /\ stage = 5 => \A j \in hits :
                             score(j) < score(i) \/ (score(j) = score(i) /\ i <= j)

\* C11: the option chosen for a scalar answer is the result of the first
\* stage, in the order exact but for case, synonym table, canonical
\* equality, containment either way, highest token overlap (earliest on
\* ties), first option, that accepts an option; and against the city list
\* New York City gives New York and Mountain View gives San Jose (Campbell).
C11_StageOrder ==
    (pc = "normalized" /\ HasOptionField(llm_yaml[1]) /\ llm_yaml[1].value.t # "list") =>
      /\ normalized[1].value.t = "str"
      /\ StageResult(FirstStage(AnsweredToken, AnsweredOptions),
                     AnsweredToken, AnsweredOptions, normalized[1].value.v[1])
      /\ (AnsweredOptions = CityOptions /\ AnsweredToken = Str("New York City"))
           => normalized[1].value = PyStr(Str("New York"))
      /\ (AnsweredOptions = CityOptions /\ AnsweredToken = Str("Mountain View"))
           => normalized[1].value = PyStr(Str("San Jose (Campbell)"))

\* Mountain View against the city list, settled by the synonym table
C11_Witness ==
    /\ pc = "normalized"
    /\ HasOptionField(llm_yaml[1])
    /\ AnsweredOptions = CityOptions
    /\ llm_yaml[1].value = PyStr(Str("Mountain View"))
    /\ FirstStage(AnsweredToken, AnsweredOptions) = 2
    /\ normalized[1].value = PyStr(Str("San Jose (Campbell)"))

\* the option lists of the schema hold no two entries that differ only in
\* letter case
CaseDistinct(schema_fields) ==
    \A k \in DOMAIN schema_fields :
      \A i, j \in DOMAIN schema_fields[k].options :
        Lower(schema_fields[k].options[i]) = Lower(schema_fields[k].options[j])
          => schema_fields[k].options[i] = schema_fields[k].options[j]

\* the output, fed back as the answer document, comes back unchanged
Idempotent ==
    validate_and_normalize(fields_schema, normalized) = normalized

\* C37 as stated: validate_and_normalize is idempotent for every schema,
\* option lists whose entries differ only in letter case included, and
\* every answer document.
C37_Original ==
    pc = "normalized" => Idempotent

\* away from such option lists the output is a fixed point
IdempotentWhenCaseDistinct ==
    (pc = "normalized" /\ CaseDistinct(fields_schema)) => Idempotent

---------------------------------------------------------------------------
(* Value planning on small fields, answers and resume documents *)

MaxAnswerEntries == 2

\* a descriptor as the scan writes it, its example the scan's guess
Descriptor(role, name, options) ==
    [ role |-> role, name |-> name, options |-> options,
      example |-> PyStr(_guess_example(name, role, options)) ]

\* the descriptors of the planned documents; the last is one of a
\* hand-written fields document, without an example
PlanDescriptors ==
    { Descriptor("textbox", Str("Full Name"), << >>),
      Descriptor("radiogroup", Str("Visa?"), <<Str("No"), Str("Yes")>>),
      Descriptor("textbox", Str("City"), << >>),
      Descriptor("combobox", Str("How did you hear"), <<Str("Github"), Str("Other")>>),
      Descriptor("radiogroup", Str("Hispanic?"), <<Str("Yes"), Str("No")>>),
      [ role |-> "textbox", name |-> Str("Notes"), options |-> << >>,
        example |-> PyNone ] }

AnswerEntry(role, name, value) == [ role |-> role, name |-> name, value |-> value ]

PlanAnswerEntries ==
    { AnswerEntry("textbox", Str("Full Name"), PyStr(Str("Ann"))),
      AnswerEntry("textbox", Str("Full Name"), PyStr(S0)),
      AnswerEntry("textbox", Str("Full Name"), PyNone),
      AnswerEntry("radiogroup", Str("Visa?"), PyStr(Str("No"))),
      AnswerEntry("radiogroup", Str("Visa?"), PyNone),
      AnswerEntry("group", Str("Visa?"), PyStr(Str("Yes"))),
      AnswerEntry("textbox", Str("City"), PyList(<<Str("Oslo"), Str("Rome")>>)),
      AnswerEntry("", Str("City"), PyStr(Str("Lima"))),
      AnswerEntry("combobox", Str("How did you hear"), PyStr(Str("Other"))) }

PlanResumes ==
    { [ loaded |-> FALSE, answers |-> EmptyDict ],
      [ loaded |-> TRUE, answers |-> EmptyDict ],
      [ loaded |-> TRUE,
        answers |-> [ work_visa_status |-> Str("US Citizen"),
                      cities |-> <<Str("Oslo"), Str("Rome"), Str("Lima")>>,
                      topn |-> 2,
                      heard_about_us |-> Str("GitHub") ] ],
      [ loaded |-> TRUE,
        answers |-> [ work_visa_status |-> Str("Permanent Resident") ] ],
      [ loaded |-> TRUE,
        answers |-> [ work_visa_status |-> Str("student visa"),
                      cities |-> <<Str("Lima")>>,
                      topn |-> 0,
                      heard_about_us |-> Str("friend") ] ] }

\* the fields documents: one descriptor, or two of different keys
PlanInit ==
    /\ pc = "plan"
    /\ \E d, e \in PlanDescriptors :
         use_fields_doc = IF d = e THEN <<d>> ELSE <<d, e>>
    /\ ans_doc \in SeqsUpTo(PlanAnswerEntries, MaxAnswerEntries)
    /\ resume_data \in PlanResumes
    /\ fields_for_fill = EmptyDict
    /\ ScanIdle
    /\ NormIdle
    /\ WalkIdle
    /\ ParIdle
    /\ AuxIdle

\* lines 499-611: answers_map is read from the answers document and
\* fields_for_fill is built from the fields document
PlanValues ==
    /\ pc = "plan"
    /\ fields_for_fill' =
         BuildFieldsForFill(use_fields_doc, BuildAnswersMap(ans_doc, EmptyDict),
                            resume_data, EmptyDict)
    /\ pc' = "planned"
    /\ UNCHANGED <<use_fields_doc, ans_doc, resume_data, scanVars, normVars, walkVars, parVars, auxVars>>

PlanNext == PlanValues

SpecPlan == PlanInit /\ [][PlanNext]_vars

\* the entries of the answers document that are a prior answer for the
\* descriptor f: the same role and name, and a value
PriorAnswers(f) ==
    { i \in DOMAIN ans_doc :
        /\ ans_doc[i].role = f.role
        /\ ans_doc[i].name = f.name
        /\ ans_doc[i].value.t # "none" }

LastOf(indices) == CHOOSE i \in indices : \A j \in indices : j <= i

ResumeDerived(f) ==
    IF resume_data.loaded
      THEN _map_resume_value(f.name, f.role, f.options, resume_data.answers)
      ELSE S0

\* C9: the value planned for a descriptor is the value of its prior answer
\* (the last entry of the answers document with exactly the descriptor's
\* role and name that gives a value) when there is one, whatever the resume
\* and the example say; otherwise the resume-derived value when that is
\* non-empty, whatever the example says; otherwise the descriptor's example;
\* and nothing when the descriptor has no example.
C9_PlanPriority ==
    pc = "planned" =>
      \A k \in DOMAIN use_fields_doc :
        LET f == use_fields_doc[k]
            planned == fields_for_fill[Key(f.role, f.name)]
        IN  IF PriorAnswers(f) # { }
              THEN planned = ans_doc[LastOf(PriorAnswers(f))].value
            ELSE IF ResumeDerived(f) # S0
              THEN planned = PyStr(ResumeDerived(f))
            ELSE IF f.example.t # "none"
              THEN planned = f.example
            ELSE planned = PyNone

\* a descriptor with a prior answer, a resume-derived value and an example,
\* all three different, planned with its prior answer; beside it one with
\* no prior answer planned with its resume-derived value
C9_Witness ==
    /\ pc = "planned"
    /\ Len(use_fields_doc) = 2
    /\ LET f == use_fields_doc[1]
           g == use_fields_doc[2]
       IN  /\ PriorAnswers(f) # { }
           /\ ResumeDerived(f) # S0
           /\ f.example.v # << >>
           /\ PyStr(ResumeDerived(f)) # ans_doc[LastOf(PriorAnswers(f))].value
           /\ fields_for_fill[Key(f.role, f.name)] = ans_doc[LastOf(PriorAnswers(f))].value
           /\ PriorAnswers(g) = { }
           /\ ResumeDerived(g) # S0
           /\ g.example # PyStr(ResumeDerived(g))
           /\ fields_for_fill[Key(g.role, g.name)] = PyStr(ResumeDerived(g))

\* a container offering exactly Yes and No, planned from a profile whose
\* work status is permanent resident, with no prior answer for it
YesNoPermanent(f) ==
    /\ Range(f.options) = { Str("Yes"), Str("No") }
    /\ resume_data.loaded
    /\ Lower(ResumeGet(resume_data.answers, "work_visa_status")) = Str("permanent resident")
    /\ PriorAnswers(f) = { }

\* the labels _map_resume_value takes for a work authorization question
WorkAuthLabel(name) ==
    ContainsAny(Lower(name), { "authoris", "authoriz", "visa", "sponsor",
                               "work permit", "eligib" })

---------------------------------------------------------------------------
(* The focus walker on small pages (main.py, collect_form_labels)          *)
(*                                                                         *)
(* A fill run (scan_only false) from the moment the page is loaded. Every  *)
(* keyboard, pointer and snapshot call of the walker may raise; the timer  *)
(* page.wait_for_timeout does not. A Tab or Shift+Tab press may leave      *)
(* focus on any focusable node of the page or on none, an ArrowDown press  *)
(* on any radio of the focused radio's group or on none; typing and        *)
(* clicking leave focus where it is. The pages have no                     *)
(* select[multiple] element outside the accessibility tree, so the DOM     *)
(* probe of lines 417-472 adds no descriptor.                              *)

MaxTabs == 4

DEFAULT_LOOP_DETECT_THRESHOLD == 3

PageText ==
    << Node("WebArea", S0, S0, 0),
       Node("textbox", Str("A"), S0, 1),
       Node("textbox", Str("B"), S0, 1),
       Node("textbox", Str("C"), S0, 1) >>

PageRadio ==
    << Node("WebArea", S0, S0, 0),
       Node("textbox", Str("Full Name"), S0, 1),
       Node("group", Str("Visa?"), S0, 1),
       Node("radio", Str("No"), S0, 3),
       Node("radio", Str("Yes"), S0, 3),
       Node("button", Str("Go"), S0, 3) >>

PageSelect ==
    << Node("WebArea", S0, S0, 0),
       Node("combobox", Str("City"), S0, 1),
       Node("option", Str("Oslo"), S0, 2),
       Node("option", Str("Rome"), S0, 2),
       Node("textbox", Str("Cities"), S0, 1),
       Node("checkbox", Str("Agree"), S0, 1) >>

\* a form whose second input is read-only
PageLocked ==
    << Node("WebArea", S0, S0, 0),
       Node("textbox", Str("Name"), S0, 1),
       [ Node("textbox", Str("Code"), S0, 1) EXCEPT !.readonly = TRUE ] >>

\* a form whose first label comes back on a second, different input
PageDup ==
    << Node("WebArea", S0, S0, 0),
       Node("textbox", Str("Q"), S0, 1),
       Node("textbox", Str("R"), S0, 1),
       Node("searchbox", Str("Q"), S0, 1),
       Node("textbox", Str("Zip"), S0, 1) >>

\* a lone radio named Yes, then a group of three radios which the answers
\* document leaves empty
PageStatus ==
    << Node("WebArea", S0, S0, 0),
       Node("radio", Str("Yes"), S0, 1),
       Node("group", Str("Pick?"), S0, 1),
       Node("radio", Str("Maybe"), S0, 3),
       Node("radio", Str("No"), S0, 3),
       Node("radio", Str("Yes"), S0, 3) >>

\* text inputs whose label and value disagree about being multi-value
PageTags ==
    << Node("WebArea", S0, S0, 0),
       Node("textbox", Str("Skills"), S0, 1),
       Node("textbox", Str("Motto"), S0, 1),
       Node("textbox", Str("Note"), S0, 1) >>

\* the form of the end-to-end scenario (test_tricky_form_scan_and_fill)
PageTricky ==
    << Node("WebArea", S0, S0, 0),
       Node("textbox", Str("Full Name *"), S0, 1),
       Node("combobox", Str("Preferred City"), S0, 1),
       Node("option", Str("Remote"), S0, 3),
       Node("option", Str("Onsite"), S0, 3),
       Node("radiogroup", Str("Authorized to work?"), S0, 1),
       Node("radio", Str("Yes"), S0, 6),
       Node("radio", Str("No"), S0, 6) >>

\* the profile of the end-to-end scenario
TrickyProfile ==
    [ loaded |-> TRUE, answers |-> [ work_visa_status |-> Str("citizen") ] ]

Citizen ==
    [ loaded |-> TRUE,
      answers |-> [ work_visa_status |-> Str("US Citizen"),
                    cities |-> <<Str("Oslo City"), Str("Rome"), Str("Lima")>>,
                    topn |-> 2,
                    heard_about_us |-> Str("GitHub") ] ]

NoResume == [ loaded |-> FALSE, answers |-> EmptyDict ]

\* the runs: a page, the answers document and the resume given with it,
\* and the loop detection thresholds tried on it
WalkSetups ==
    { [ page |-> PageText, ans_doc |-> << >>, resume_data |-> NoResume,
        thresholds |-> 1..DEFAULT_LOOP_DETECT_THRESHOLD ],
      [ page |-> PageRadio, ans_doc |-> << >>, resume_data |-> NoResume,
        thresholds |-> { DEFAULT_LOOP_DETECT_THRESHOLD } ],
      [ page |-> PageRadio, ans_doc |-> << >>, resume_data |-> Citizen,
        thresholds |-> { DEFAULT_LOOP_DETECT_THRESHOLD } ],
      [ page |-> PageSelect,
        ans_doc |-> << AnswerEntry("combobox", Str("City"),
                                   PyList(<<Str("Rome"), Str("Oslo")>>)),
                       AnswerEntry("checkbox", Str("Agree"), PyStr(Str("Yes"))) >>,
        resume_data |-> Citizen,
        thresholds |-> { DEFAULT_LOOP_DETECT_THRESHOLD } ],
      [ page |-> PageTricky, ans_doc |-> << >>, resume_data |-> TrickyProfile,
        thresholds |-> { DEFAULT_LOOP_DETECT_THRESHOLD } ],
      [ page |-> PageLocked, ans_doc |-> << >>, resume_data |-> NoResume,
        thresholds |-> { DEFAULT_LOOP_DETECT_THRESHOLD } ],
      [ page |-> PageDup, ans_doc |-> << >>, resume_data |-> NoResume,
        thresholds |-> { 2 } ],
      [ page |-> PageTags,
        ans_doc |-> << AnswerEntry("textbox", Str("Skills"), PyStr(Str("Go"))),
                       AnswerEntry("textbox", Str("Motto"), PyStr(Str("a, b"))),
                       AnswerEntry("textbox", Str("Note"),
                                   PyList(<<Str("a"), Str("b")>>)) >>,
        resume_data |-> NoResume,
        thresholds |-> { DEFAULT_LOOP_DETECT_THRESHOLD } ],
      [ page |-> PageStatus,
        ans_doc |-> << AnswerEntry("group", Str("Pick?"), PyStr(S0)) >>,
        resume_data |-> Citizen,
        thresholds |-> { DEFAULT_LOOP_DETECT_THRESHOLD } ] }

\* the text fields of the pages that do not show what is typed into them
Unresponsive == { Str("C") }

\* the inputs whose accessible name shows, after the label, the text typed
\* into them
Echoing == { Str("Name") }

\* the nodes a key press can leave focus on
FocusTargets ==
    { 0 } \cup { i \in DOMAIN page : page[i].role \in interactive_roles \cup { "button" } }

\* the stops of the page's tab order: the focusable nodes in document
\* order, a group of radios being one stop entered at its first radio
TabStops ==
    { i \in FocusTargets \ { 0 } :
        page[i].role = "radio" =>
          \A j \in DOMAIN page :
            (page[j].role = "radio" /\ page[j].parent = page[i].parent) => j >= i }

MinOf(S) == CHOOSE i \in S : \A j \in S : i <= j

\* where a Tab press that does what it is asked to leaves focus
NextTabStop ==
    IF TabStops = { } THEN 0
    ELSE IF { i \in TabStops : i > focus } # { }
      THEN MinOf({ i \in TabStops : i > focus })
    ELSE MinOf(TabStops)

\* the nodes an ArrowDown press can leave focus on: the radios of the
\* focused node's group, or none
ArrowTargets ==
    { 0 } \cup { j \in DOMAIN page :
                  /\ focus # 0
                  /\ page[j].role = "radio"
                  /\ page[j].parent = page[focus].parent }

\* where an ArrowDown press on a radio leaves focus: the next radio of its
\* group, the first one after the last
NextRadio ==
    LET group == { j \in DOMAIN page :
                     /\ focus # 0
                     /\ page[j].role = "radio"
                     /\ page[j].parent = page[focus].parent }
    IN  IF group = { } THEN focus
        ELSE IF { j \in group : j > focus } # { }
          THEN MinOf({ j \in group : j > focus })
        ELSE MinOf(group)

\* the texts of the options of the page's multi-selects (line 725)
AvailableOptions == OptionNames(page, _find_nodes_by_role(page, "option"), { "option" })

InitOn(setups) ==
    /\ pc = "start"
    /\ \E setup \in setups :
         /\ page = setup.page
         /\ ans_doc = setup.ans_doc
         /\ resume_data = setup.resume_data
         /\ loop_detect_threshold \in setup.thresholds
    /\ focus = 0
    /\ max_tabs \in { 1, MaxTabs }
    /\ use_fields_doc = << >>
    /\ fields_for_fill = EmptyDict
    /\ ScanIdle
    /\ NormIdle
    /\ WalkStart
    /\ ParIdle
    /\ AuxIdle

Init == InitOn(WalkSetups)

\* line 415: the snapshot handed to the scan raises, and nothing catches it
ScanFails ==
    /\ pc = "start"
    /\ pc' = "raised"
    /\ UNCHANGED <<parVars, scanVars, normVars, planVars, walkVars, auxVars>>

\* lines 415-611: the page is scanned, the fields document written and
\* read back, and the values planned
Prepare ==
    /\ pc = "start"
    /\ LET scanned == _scan_all_fields(Snapshot(page, focus))
       IN  /\ ax_full' = Snapshot(page, focus)
           /\ all_fields' = scanned
           /\ use_fields_doc' = FieldsDoc(scanned)
           /\ fields_for_fill' =
                BuildFieldsForFill(FieldsDoc(scanned),
                                   BuildAnswersMap(ans_doc, EmptyDict),
                                   resume_data, EmptyDict)
    /\ pc' = "nudge"
    /\ UNCHANGED <<ans_doc, resume_data, normVars, walkVars, parVars, auxVars>>

\* lines 621-626: Tab into the document; a failing press is passed over
Nudge ==
    /\ pc = "nudge"
    /\ \E f \in FocusTargets : focus' = f
    /\ clean' = (clean /\ focus' = NextTabStop)
    /\ pc' = "observe"
    /\ UNCHANGED <<parVars, auxVars, scanVars, normVars, planVars, cfgVars, page, recVars, loopVars,
                   stopVars, advVars, radioVars, key, field, fill_events, fill_log, prev_container,
                   select_outcomes, chip_outcomes, text_outcomes>>

\* what the snapshot at the head of the iteration shows (lines 640-651)
Ax == Snapshot(page, focus)

Focused == _find_focused_node(Ax)

FRole == Ax[Focused.found].role

FName == _norm_text(Ax[Focused.found].name)

FEditable == Focused.found # 0 /\ _is_editable_role(FRole, Ax[Focused.found])

FContainer == _nearest_container(Ax, Focused.found, Focused.anc)

FStable == _stable_label(RawLabel(FContainer.label, FName), Ax[Focused.found].value)

\* first_stable_label and unique_stable_labels after lines 652-654
FirstAfter == IF first_stable_label = None THEN FStable ELSE first_stable_label

UniqueAfter == unique_stable_labels \cup { FStable }

\* a loop test that fires only on a node recorded before
FLoopClosedOnReturn ==
    /\ LoopClosed(FStable, FirstAfter, UniqueAfter, seen_labels, loop_detect_threshold)
    /\ Key(FRole, FName) \in seen_keys

FLoopClosed ==
    LoopClosed(FStable, FirstAfter, UniqueAfter, seen_labels, loop_detect_threshold)

\* line 640: the snapshot raises, and nothing catches it
SnapshotFails ==
    /\ pc = "observe"
    /\ ~RangeExhausted(iter, max_tabs)
    /\ pc' = "raised"
    /\ UNCHANGED <<parVars, scanVars, normVars, planVars, walkVars, auxVars>>

\* the for loop has no iteration left
LoopExhausted ==
    /\ pc = "observe"
    /\ RangeExhausted(iter, max_tabs)
    /\ pc' = "report"
    /\ UNCHANGED <<parVars, scanVars, normVars, planVars, walkVars, auxVars>>

\* no node has focus, or a node that is not editable: a button under the
\* last container label is noted (lines 939-943)
ObserveNoField ==
    /\ pc = "observe"
    /\ ~RangeExhausted(iter, max_tabs)
    /\ ~FEditable
    /\ key' = IF Focused.found = 0 THEN NoKey ELSE Key(FRole, FName)
    /\ field_buttons' =
         IF /\ Focused.found # 0
            /\ FRole = "button"
            /\ FContainer.label # S0
            /\ last_container_label \notin { None, S0 }
            /\ FContainer.label = last_container_label
            /\ FName # S0
           THEN DictPut(field_buttons, FContainer.label,
                        (IF FContainer.label \in DOMAIN field_buttons
                           THEN field_buttons[FContainer.label] ELSE { })
                          \cup { FName })
           ELSE field_buttons
    /\ snaps' = SnapsAfter(key')
    /\ pc' = "advance"
    /\ UNCHANGED <<parVars, auxVars, scanVars, normVars, planVars, cfgVars, pageVars, labels, seen_keys,
                   seen_labels, last_container_label, field_options, field_roles,
                   first_stable_label, unique_stable_labels, visited, stopVars, advVars, radioVars, field, fill_events,
                   fill_log, clean, prev_container, select_outcomes, chip_outcomes, text_outcomes>>

\* lines 656-664: the focus cycle is closed: one Shift+Tab, passed over
\* if it fails, and the loop is left
ObserveLoop ==
    /\ pc = "observe"
    /\ ~RangeExhausted(iter, max_tabs)
    /\ FEditable
    /\ FLoopClosed
    /\ key' = Key(FRole, FName)
    /\ prev_container' = IF FContainer.label # S0 THEN FContainer.label ELSE FStable
    /\ first_stable_label' = FirstAfter
    /\ unique_stable_labels' = UniqueAfter
    /\ visited' = visited \cup { Focused.found }
    /\ snaps' = SnapsAfter(key')
    /\ \E f \in FocusTargets : focus' = f
    /\ shift_tabs' = shift_tabs + 1
    /\ ended_reason' = "loop_detected"
    /\ backtracked' = TRUE
    /\ pc' = "report"
    /\ UNCHANGED <<parVars, auxVars, scanVars, normVars, planVars, cfgVars, page, recVars, advVars,
                   radioVars, field, fill_events, fill_log, clean, select_outcomes, chip_outcomes, text_outcomes>>

\* an editable node whose key was seen before: nothing to record or fill
ObserveSeen ==
    /\ pc = "observe"
    /\ ~RangeExhausted(iter, max_tabs)
    /\ FEditable
    /\ ~FLoopClosed
    /\ Key(FRole, FName) \in seen_keys
    /\ key' = Key(FRole, FName)
    /\ prev_container' = IF FContainer.label # S0 THEN FContainer.label ELSE FStable
    /\ first_stable_label' = FirstAfter
    /\ unique_stable_labels' = UniqueAfter
    /\ visited' = visited \cup { Focused.found }
    /\ snaps' = SnapsAfter(key')
    /\ pc' = "advance"
    /\ UNCHANGED <<parVars, auxVars, scanVars, normVars, planVars, cfgVars, pageVars, recVars, stopVars,
                   advVars, radioVars, field, fill_events, fill_log, clean,
                   select_outcomes, chip_outcomes, text_outcomes>>

\* lines 665-690: an editable node with a new key is recorded and its
\* value looked up; the fill that follows depends on the role
ObserveNew ==
    /\ pc = "observe"
    /\ ~RangeExhausted(iter, max_tabs)
    /\ FEditable
    /\ ~FLoopClosed
    /\ Key(FRole, FName) \notin seen_keys
    /\ key' = Key(FRole, FName)
    /\ prev_container' = IF FContainer.label # S0 THEN FContainer.label ELSE FStable
    /\ first_stable_label' = FirstAfter
    /\ unique_stable_labels' = UniqueAfter
    /\ visited' = visited \cup { Focused.found }
    /\ snaps' = SnapsAfter(key')
    /\ seen_keys' = seen_keys \cup { Key(FRole, FName) }
    /\ seen_labels' = seen_labels \cup { FStable }
    /\ labels' = IF FStable \in seen_labels THEN labels ELSE Append(labels, FStable)
    /\ last_container_label' =
         IF FContainer.label # S0 THEN FContainer.label ELSE FStable
    /\ LET found == _collect_options_for_container(Ax, FContainer.container)
           lbl == IF FContainer.label # S0 THEN FContainer.label ELSE FStable
       IN  /\ field_options' =
                IF found.options # << >>
                  THEN DictPut(field_options, lbl,
                               (IF lbl \in DOMAIN field_options
                                  THEN field_options[lbl] ELSE { })
                                 \cup Range(found.options))
                  ELSE field_options
           /\ field_roles' =
                IF found.options # << >> /\ found.role # ""
                  THEN DictPut(field_roles, lbl, found.role)
                  ELSE field_roles
    /\ field' = [ label_text |-> FStable,
                  ex |-> ExOf(EntryFor(fields_for_fill, Key(FRole, FName),
                                       last_container_label')),
                  role |-> FRole ]
    /\ pc' = IF FRole \in TEXT_INPUT_ROLES THEN "fill_text"
             ELSE IF FRole \in { "combobox", "listbox" } /\ Truthy(field'.ex)
               THEN "fill_select"
             ELSE IF FRole = "radio" THEN "radio_start"
             ELSE "advance"
    /\ UNCHANGED <<parVars, auxVars, scanVars, normVars, planVars, cfgVars, pageVars, field_buttons,
                   stopVars, advVars, radioVars, fill_events, fill_log, clean,
                   select_outcomes, chip_outcomes, text_outcomes>>

\* no clearing: the content stays
ClearedKept(ok) == page

\* lines 693-697: select-all and delete empty the focused node; a press
\* that raises is passed over and leaves the content
Cleared(ok) ==
    IF ok /\ page[focus].name \notin Unresponsive
      THEN [ page EXCEPT ![focus].value = S0 ] ELSE page

\* the page pg after text is typed into the focused node, after what it holds
Typed(pg, text) ==
    IF pg[focus].name \in Unresponsive THEN pg
    ELSE IF pg[focus].name \in Echoing
      THEN [ pg EXCEPT ![focus].value = @ \o text, ![focus].name = @ \o Str(": ") \o text ]
    ELSE [ pg EXCEPT ![focus].value = @ \o text ]

\* line 813: typing the single value raises, and nothing catches it
TypeFails ==
    /\ pc = "fill_text"
    /\ Truthy(field.ex)
    /\ ~is_multi_value(field.ex, field.label_text)
    /\ pc' = "raised"
    /\ UNCHANGED <<parVars, scanVars, normVars, planVars, walkVars, auxVars>>

\* lines 692-697 and 811-826: the single value is typed, whatever the
\* clearing keys did, and the focused node's value is read back; reread
\* says whether the re-read succeeded
FillTextSingle ==
    /\ pc = "fill_text"
    /\ ~is_multi_value(field.ex, field.label_text)
    /\ \E cleared \in { c \in BOOLEAN : c \/ page[focus].value # S0 }, reread \in BOOLEAN :
       \E typed \in { IF Truthy(field.ex) THEN Typed(Cleared(cleared), str_of(field.ex))
                      ELSE Cleared(cleared) } :
         /\ page' = typed
         /\ text_outcomes' = [ cleared |-> cleared, reread |-> reread ]
         /\ fill_events' =
              Append(fill_events,
                TypedEvent(field.label_text, field.ex,
                  IF ~reread THEN "None"
                  ELSE PyBool(/\ Truthy(field.ex)
                              /\ Strip(str_of(field.ex))
                                   = _norm_text(typed[focus].value))))
         /\ clean' = (/\ clean
                      /\ cleared
                      /\ reread
                      /\ Truthy(field.ex) => typed[focus].value = str_of(field.ex))
    /\ pc' = "advance"
    /\ UNCHANGED <<parVars, auxVars, scanVars, normVars, planVars, cfgVars, focus, recVars, loopVars,
                   stopVars, advVars, radioVars, key, field, fill_log, prev_container,
                   select_outcomes, chip_outcomes>>

\* lines 716-810 and 821-826: the chip input: every piece is matched
\* against the page's options and typed; a piece whose typing fails is
\* not committed; evaluated says if the page's options could be read,
\* probed if the body text could be read, visible if the body text holds
\* every committed token
FillTextMulti ==
    /\ pc = "fill_text"
    /\ is_multi_value(field.ex, field.label_text)
    /\ \E pieces \in { Pieces(field.ex) } :
       \E cleared \in { c \in BOOLEAN : c \/ page[focus].value # S0 } :
       \E evaluated \in BOOLEAN, probed \in BOOLEAN, visible \in BOOLEAN :
       \E committed \in [ DOMAIN pieces -> BOOLEAN ] :
       \E available_options \in { IF evaluated THEN AvailableOptions ELSE << >> } :
       \E to_type \in { [ i \in DOMAIN pieces |->
                            _best_option_local(pieces[i], available_options) ] } :
       \E tokens_committed \in { Flagged(to_type, committed) } :
         /\ tokens_committed = << >> => visible
         /\ page' = Cleared(cleared)
         /\ fill_events' =
              Append(fill_events,
                TokensEvent(field.label_text, field.ex, tokens_committed,
                  IF tokens_committed = << >> \/ ~probed THEN "None"
                  ELSE PyBool(visible)))
         /\ chip_outcomes' = [ typed |-> to_type, committed |-> committed,
                               evaluated |-> evaluated, probed |-> probed,
                               visible |-> visible ]
         /\ clean' = (/\ clean /\ cleared /\ evaluated /\ probed /\ visible
                      /\ \A i \in DOMAIN pieces : committed[i])
    /\ pc' = "advance"
    /\ UNCHANGED <<parVars, auxVars, scanVars, normVars, planVars, cfgVars, focus, recVars, loopVars,
                   stopVars, advVars, radioVars, key, field, fill_log, prev_container,
                   select_outcomes, text_outcomes>>

\* lines 832-854: confirmed is True when the option click went through or,
\* after it failed, the typed fallback did, and None when both failed
SelectConfirmed(outcome) == IF outcome = "failed" THEN "None" ELSE "True"

\* lines 827-860: one event for every value; each selection is clicked,
\* or typed after the click failed, or fails both ways
FillSelect ==
    /\ pc = "fill_select"
    /\ \E outcomes \in [ DOMAIN SelectValues(field.ex) -> { "clicked", "typed", "failed" } ] :
         /\ fill_events' =
              fill_events \o SelectedEvents(field.label_text, SelectValues(field.ex),
                                            [ i \in DOMAIN outcomes |->
                                                SelectConfirmed(outcomes[i]) ])
         /\ select_outcomes' = outcomes
         /\ clean' = (clean /\ \A i \in DOMAIN outcomes : outcomes[i] = "clicked")
    /\ pc' = "advance"
    /\ UNCHANGED <<parVars, auxVars, scanVars, normVars, planVars, cfgVars, pageVars, recVars, loopVars,
                   stopVars, advVars, radioVars, key, field, fill_log, prev_container,
                   chip_outcomes, text_outcomes>>

\* lines 864-908: the radio's target is settled; in the last resort Space
\* is pressed on a radio named Yes and an event appended right away
RadioStart ==
    /\ pc = "radio_start"
    \* node and ancestors are those of the iteration's snapshot
    /\ \E ax \in { Ax } : \E fo \in { _find_focused_node(ax) } :
       \E r \in { RadioTarget(field.ex, ax, fo.found, fo.anc,
                                fields_for_fill, resume_data) } :
           /\ target' = r.target
           /\ space_presses' = (IF r.toggled THEN 1 ELSE 0)
           /\ fill_events' =
                IF r.toggled
                  THEN Append(fill_events,
                              SelectedEvent(field.label_text, Str("Yes"), "True"))
                  ELSE fill_events
    /\ tries' = 0
    /\ curr_name' = S0
    /\ arrow_presses' = 0
    /\ pc' = "radio_loop"
    /\ UNCHANGED <<parVars, auxVars, scanVars, normVars, planVars, cfgVars, pageVars, recVars, loopVars,
                   stopVars, advVars, key, field, fill_log, clean, prev_container,
                   select_outcomes, chip_outcomes, text_outcomes>>

\* while target and tries < 6
RadioContinues == target # S0 /\ tries < RADIO_MAX_TRIES

\* line 911: the snapshot inside the radio loop raises
RadioSnapshotFails ==
    /\ pc = "radio_loop"
    /\ RadioContinues
    /\ pc' = "raised"
    /\ UNCHANGED <<parVars, scanVars, normVars, planVars, walkVars, auxVars>>

\* lines 909-920: one turn of the radio loop: the focused name is read;
\* if it is not the target ArrowDown is pressed, and a failing press
\* leaves the loop
RadioStep ==
    /\ pc = "radio_loop"
    /\ RadioContinues
    /\ curr_name' = (IF Focused.found = 0 THEN S0 ELSE FName)
    /\ \/ /\ curr_name' = target
          /\ pc' = "radio_end"
          /\ UNCHANGED <<focus, tries, arrow_presses, clean>>
       \/ /\ curr_name' # target
          /\ arrow_presses' = arrow_presses + 1
          /\ \/ /\ \E f \in ArrowTargets : focus' = f
                /\ clean' = (clean /\ focus' = NextRadio)
                /\ tries' = tries + 1
                /\ pc' = "radio_loop"
             \/ /\ pc' = "radio_end"
                /\ clean' = FALSE
                /\ UNCHANGED <<focus, tries>>
    /\ UNCHANGED <<parVars, auxVars, scanVars, normVars, planVars, cfgVars, page, recVars, loopVars,
                   stopVars, advVars, target, space_presses, key, field, fill_events,
                   fill_log, prev_container, select_outcomes, chip_outcomes, text_outcomes>>

\* lines 921-926: after the loop an event for the target, confirmed when
\* the name read last is the target
RadioEnd ==
    /\ \/ pc = "radio_end"
       \/ pc = "radio_loop" /\ ~RadioContinues
    /\ fill_events' =
         IF target # S0
           THEN Append(fill_events,
                       SelectedEvent(field.label_text, target, PyBool(curr_name = target)))
           ELSE fill_events
    /\ pc' = "advance"
    /\ UNCHANGED <<parVars, auxVars, scanVars, normVars, planVars, cfgVars, pageVars, recVars, loopVars,
                   stopVars, advVars, radioVars, key, field, fill_log, clean, prev_container,
                   select_outcomes, chip_outcomes, text_outcomes>>

\* lines 946-951: the Tab press raises
TabPressFails ==
    /\ pc = "advance"
    /\ ended_reason' = "tab_press_failed"
    /\ clean' = FALSE
    /\ pc' = "report"
    /\ UNCHANGED <<parVars, auxVars, scanVars, normVars, planVars, cfgVars, pageVars, recVars, loopVars,
                   backtracked, shift_tabs, advVars, radioVars, key, field,
                   fill_events, fill_log, prev_container, select_outcomes, chip_outcomes, text_outcomes>>

\* lines 946-962: Tab is pressed, then the stuck test: the same key as in
\* the iteration before for the third time in a row ends the run. The
\* iteration's locals are cleared here, key = None of line 642 included.
PressTab ==
    /\ pc = "advance"
    /\ tabs_sent' = tabs_sent + 1
    /\ events_before' = Len(fill_events)
    /\ \E f \in FocusTargets : focus' = f
    /\ clean' = (clean /\ focus' = NextTabStop)
    /\ IF key # NoKey /\ last_key = key
         THEN /\ stuck_count' = stuck_count + 1
              /\ IF Stuck(stuck_count')
                   THEN /\ ended_reason' = "focus_stuck"
                        /\ pc' = "report"
                        /\ UNCHANGED <<last_key, iter>>
                        /\ UNCHANGED key
                   ELSE /\ last_key' = key
                        /\ iter' = iter + 1
                        /\ key' = NoKey
                        /\ pc' = "observe"
                        /\ UNCHANGED ended_reason
         ELSE /\ stuck_count' = 0
              /\ last_key' = key
              /\ iter' = iter + 1
              /\ key' = NoKey
              /\ pc' = "observe"
              /\ UNCHANGED ended_reason
    /\ field' = NoField
    /\ target' = S0
    /\ tries' = 0
    /\ curr_name' = S0
    /\ arrow_presses' = 0
    /\ space_presses' = 0
    /\ select_outcomes' = << >>
    /\ chip_outcomes' = << >>
    /\ text_outcomes' = << >>
    /\ UNCHANGED <<parVars, auxVars, scanVars, normVars, planVars, cfgVars, page, recVars, loopVars,
                   backtracked, shift_tabs, fill_events, fill_log, prev_container>>

\* a report that keeps only the events of the last iteration
FillDocLastEvents ==
    [ written |-> TRUE,
      ended_reason |-> ended_reason,
      loop_detected |-> (ended_reason = "loop_detected"),
      backtracked |-> backtracked,
      tabs_sent |-> tabs_sent,
      unique_fields |-> SortedSeq(seen_labels),
      events |-> SubSeq(fill_events, events_before + 1, Len(fill_events)) ]

\* a report that leaves the reason out
FillDocNoReason ==
    [ written |-> TRUE,
      ended_reason |-> "None",
      loop_detected |-> FALSE,
      backtracked |-> backtracked,
      tabs_sent |-> tabs_sent,
      unique_fields |-> SortedSeq(seen_labels),
      events |-> fill_events ]

\* the fill report (lines 968-976)
FillDoc ==
    [ written |-> TRUE,
      ended_reason |-> ended_reason,
      loop_detected |-> (ended_reason = "loop_detected"),
      backtracked |-> backtracked,
      tabs_sent |-> tabs_sent,
      unique_fields |-> SortedSeq(seen_labels),
      events |-> fill_events ]

\* lines 964-1043: the report is written if there is an event or a
\* reason, the screenshot attempted, and the run returns
WriteReport ==
    /\ pc = "report"
    /\ fill_log' = IF ReportDue(fill_events, ended_reason) THEN FillDoc ELSE NoLog
    /\ pc' = "returned"
    /\ UNCHANGED <<parVars, auxVars, scanVars, normVars, planVars, cfgVars, pageVars, recVars, loopVars,
                   stopVars, advVars, radioVars, key, field, fill_events, clean, prev_container,
                   select_outcomes, chip_outcomes, text_outcomes>>

Next ==
    \/ ScanFails
    \/ Prepare
    \/ Nudge
    \/ SnapshotFails
    \/ LoopExhausted
    \/ ObserveNoField
    \/ ObserveLoop
    \/ ObserveSeen
    \/ ObserveNew
    \/ TypeFails
    \/ FillTextSingle
    \/ FillTextMulti
    \/ FillSelect
    \/ RadioStart
    \/ RadioSnapshotFails
    \/ RadioStep
    \/ RadioEnd
    \/ TabPressFails
    \/ PressTab
    \/ WriteReport

Spec == Init /\ [][Next]_vars

\* the run is over: it returned, or an exception left collect_form_labels
Done == pc \in { "returned", "raised" }

\* the program is one thread that keeps running while it has a step to
\* take: every browser call returns or raises within its timeout
\* termination is checked on the forms that bring every step of the walker
\* into play
FairSetups == { setup \in WalkSetups : setup.page \in { PageText, PageRadio, PageSelect } }

FairSpec == InitOn(FairSetups) /\ [][Next]_vars /\ WF_vars(Next)

---------------------------------------------------------------------------
(* Fill runs side by side (ai_form_activities.py, run_form_fill)           *)
(* The worker hands its activities to the threads of one pool (worker.py   *)
(* lines 33 and 53). Every run has a browser, a page and the locals of     *)
(* collect_form_labels to itself: the descriptors it scans and the events  *)
(* its walk appends are its own. What the runs share is the wall clock and *)
(* the files of the output directories. The directories modelled lie       *)
(* outside the test artifacts, so _prune_old_logs is not called (lines     *)
(* 481-487 and 985-992).                                                   *)

Runs == { 1, 2 }

MaxClock == 1

\* the directories a run writes to: out_dir=None is form-data next to
\* main.py (lines 420-421), which is what run_form_fill passes
OutDirs == { "form-data", "elsewhere" }

\* the page a run opens, and the events and the reason its walk ends with
ParJobs ==
    { [ page |-> PageText,
        events |-> << TypedEvent(Str("A"), PyStr(Str("Ann")), "True"),
                      TokensEvent(Str("B"), PyStr(Str("x, y")),
                                  << Str("x"), Str("y") >>, "True") >>,
        ended_reason |-> "None" ],
      [ page |-> PageRadio,
        events |-> << TypedEvent(Str("Full Name"), PyStr(Str("Bo")), "False"),
                      SelectedEvent(Str("Visa?"), Str("Yes"), "True") >>,
        ended_reason |-> "loop_detected" ],
      [ page |-> PageLocked, events |-> << >>, ended_reason |-> "None" ] }

NoPath == << >>

\* logs_dir / f"{stem}-{ts}.yaml": ts is the clock formatted to the second
LogPath(out_dir, stem, ts) == <<out_dir, "logs", stem, ts>>

\* the body of the loop over the events of the log
ExtractEvent(out, ev) ==
    IF ev.field = S0 THEN out
    ELSE LET typed == IF ev.kind = "typed" /\ ev.value # S0
                        THEN DictPut(out, ev.field, PyStr(ev.value))
                        ELSE out
             toks == IF ev.tokens # << >>
                       THEN DictPut(typed, ev.field, PyList(ev.tokens))
                       ELSE typed
         IN  IF ev.kind = "selected" /\ ev.value # S0
               THEN DictPut(toks, ev.field, PyStr(ev.value))
               ELSE toks

RECURSIVE ExtractEvents(_, _)
ExtractEvents(out, events) ==
    IF events = << >> THEN out
    ELSE ExtractEvents(ExtractEvent(out, Head(events)), Tail(events))

\* _extract_filled_data_from_log(log_path) on the files as they are now
_extract_filled_data_from_log(store, log_path) ==
    IF log_path = NoPath \/ log_path \notin DOMAIN store THEN EmptyDict
    ELSE ExtractEvents(EmptyDict, store[log_path].events)

\* the fields document and the fill report of a job
ParFieldsDoc(job) == [ fields |-> FieldsDoc(_scan_all_fields(Snapshot(job.page, 0))) ]

ParFillDoc(job) ==
    [ ended_reason |-> job.ended_reason,
      loop_detected |-> (job.ended_reason = "loop_detected"),
      events |-> job.events ]

ParInit ==
    /\ pc = "parallel"
    /\ clock = 0
    /\ files = << >>
    /\ run \in [ Runs -> { [ job |-> j, out_dir |-> d, at |-> "start", ts |-> 0,
                             fields_path |-> NoPath, fill_log_path |-> NoPath,
                             filled |-> EmptyDict ] : j \in ParJobs, d \in OutDirs } ]
    /\ ScanIdle
    /\ NormIdle
    /\ PlanIdle
    /\ WalkIdle
    /\ AuxIdle

\* a second of wall-clock time passes
ParTick ==
    /\ clock < MaxClock
    /\ clock' = clock + 1
    /\ UNCHANGED <<pc, files, run, scanVars, normVars, planVars, walkVars, auxVars>>

\* lines 415-423: the page is scanned and ts read off the clock
ParStamp(i) ==
    /\ run[i].at = "start"
    /\ run' = [ run EXCEPT ![i].at = "stamped", ![i].ts = clock ]
    /\ UNCHANGED <<pc, clock, files, scanVars, normVars, planVars, walkVars, auxVars>>

\* lines 474-479: the fields document is written to form-fields-{ts}.yaml
ParWriteFields(i) ==
    /\ run[i].at = "stamped"
    /\ LET path == LogPath(run[i].out_dir, "form-fields", run[i].ts)
       IN  /\ files' = DictPut(files, path, ParFieldsDoc(run[i].job))
           /\ run' = [ run EXCEPT ![i].at = "walk", ![i].fields_path = path ]
    /\ UNCHANGED <<pc, clock, scanVars, normVars, planVars, walkVars, auxVars>>

\* lines 628-984: the walk ends, and the report is written to
\* form-fill-{ts}.yaml if there is an event or a reason
ParWriteFill(i) ==
    /\ run[i].at = "walk"
    /\ LET path == LogPath(run[i].out_dir, "form-fill", run[i].ts)
       IN  IF ReportDue(run[i].job.events, run[i].job.ended_reason)
             THEN /\ files' = DictPut(files, path, ParFillDoc(run[i].job))
                  /\ run' = [ run EXCEPT ![i].at = "collected", ![i].fill_log_path = path ]
             ELSE /\ files' = files
                  /\ run' = [ run EXCEPT ![i].at = "collected" ]
    /\ UNCHANGED <<pc, clock, scanVars, normVars, planVars, walkVars, auxVars>>

\* run_form_fill, lines 150-169: collect returned, and filledData is read
\* back from the file at fill_log_path
ParExtract(i) ==
    /\ run[i].at = "collected"
    /\ run' = [ run EXCEPT ![i].at = "done",
                           ![i].filled = _extract_filled_data_from_log(files, run[i].fill_log_path) ]
    /\ UNCHANGED <<pc, clock, files, scanVars, normVars, planVars, walkVars, auxVars>>

ParNext ==
    \/ ParTick
    \/ \E i \in Runs : ParStamp(i)
    \/ \E i \in Runs : ParWriteFields(i)
    \/ \E i \in Runs : ParWriteFill(i)
    \/ \E i \in Runs : ParExtract(i)

SpecPar == ParInit /\ [][ParNext]_vars

---------------------------------------------------------------------------
(* The focused node of a snapshot and its container (lines 92-104, 125-135) *)

MaxTreeNodes == 3

\* the (role, name) pairs the nodes of the trees are drawn from
TreeKinds ==
    { <<"group", Str(" G ")>>, <<"form", Str("F")>>, <<"listbox", Str("L")>>,
      <<"combobox", Str("C")>>, <<"radiogroup", Str("R")>>, <<"radio", Str("Y")>> }

TreeInit ==
    /\ pc = "grow"
    /\ ax_full \in { << >>, <<Node("WebArea", S0, S0, 0)>> }
    /\ all_fields = << >>
    /\ TreeIdle
    /\ MapIdle
    /\ WfIdle
    /\ NormIdle
    /\ PlanIdle
    /\ WalkIdle
    /\ ParIdle

\* the tree has one more node, under any of its nodes
TreeAddsNode ==
    /\ pc = "grow"
    /\ ax_full # << >>
    /\ Len(ax_full) <= MaxTreeNodes
    /\ \E k \in TreeKinds, p \in DOMAIN ax_full :
         ax_full' = Append(ax_full, Node(k[1], k[2], S0, p))
    /\ UNCHANGED <<pc, all_fields, normVars, planVars, walkVars, parVars, auxVars>>

\* one more node of the tree reports focus
TreeFocuses ==
    /\ pc = "grow"
    /\ \E i \in DOMAIN ax_full :
         /\ ~ax_full[i].focused
         /\ ax_full' = [ ax_full EXCEPT ![i].focused = TRUE ]
    /\ UNCHANGED <<pc, all_fields, normVars, planVars, walkVars, parVars, auxVars>>

\* line 641: node, ancestors = _find_focused_node(ax)
FindFocused ==
    /\ pc = "grow"
    /\ focused_node' = _find_focused_node(ax_full)
    /\ pc' = "focused"
    /\ UNCHANGED <<scanVars, normVars, planVars, walkVars, parVars, mapVars, wfVars, nearest>>

\* line 649: container, container_label = _nearest_container(node, ancestors)
NearestContainer ==
    /\ pc = "focused"
    /\ nearest' = _nearest_container(ax_full, focused_node.found, focused_node.anc)
    /\ pc' = "contained"
    /\ UNCHANGED <<scanVars, normVars, planVars, walkVars, parVars, mapVars, wfVars, focused_node>>

TreeNext == TreeAddsNode \/ TreeFocuses \/ FindFocused \/ NearestContainer

SpecTree == TreeInit /\ [][TreeNext]_vars

---------------------------------------------------------------------------
(* The answer a profile gives for a field (lines 536-591) *)

\* the labels of the fields: work authorization, how-did-you-hear, both,
\* how-did-you-hear with city availability, and none of them
MapLabels ==
    { Str("Visa?"), Str("Work Permit"), Str("How did you hear"),
      Str("Visa: how did you hear"), Str("How did you hear what cities"),
      Str("Hispanic?") }

MapRoles == { "radiogroup", "combobox" }

MapOptions ==
    { << >>,
      <<Str("No"), Str("Yes")>>,
      <<Str("No, I need sponsorship now."),
        Str("Yes, but I will need sponsorship in the future."),
        Str("Yes, no restriction.")>>,
      <<Str("I am authorized"), Str("No")>>,
      <<Str("Maybe"), Str("Yes, but I will need sponsorship in the future")>>,
      <<Str("Github"), Str("Other")>>,
      <<Str("Other"), Str("Word of mouth")>> }

MapProfiles ==
    { EmptyDict,
      [ work_visa_status |-> Str("US Citizen"),
        cities |-> <<Str("Oslo"), Str("Rome")>>,
        topn |-> 0,
        heard_about_us |-> Str("GitHub") ],
      [ work_visa_status |-> Str("Permanent Resident"),
        heard_about_us |-> Str("friend") ],
      [ work_visa_status |-> Str("No sponsorship needed") ],
      [ work_visa_status |-> Str("student visa"),
        heard_about_us |-> Str("linkedin") ],
      [ work_visa_status |-> Str("H-1B") ] }

MapInit ==
    /\ pc = "map"
    /\ map_args \in [ field_name : MapLabels, role : MapRoles,
                       options : MapOptions, rdict : MapProfiles ]
    /\ derived = S0
    /\ TreeIdle
    /\ WfIdle
    /\ ScanIdle
    /\ NormIdle
    /\ PlanIdle
    /\ WalkIdle
    /\ ParIdle

\* line 608: value = _map_resume_value(n, r, options, resume_answers)
MapValue ==
    /\ pc = "map"
    /\ derived' = _map_resume_value(map_args.field_name, map_args.role,
                                    map_args.options, map_args.rdict)
    /\ pc' = "mapped"
    /\ UNCHANGED <<scanVars, normVars, planVars, walkVars, parVars, treeVars, wfVars, map_args>>

MapNext == MapValue

SpecMap == MapInit /\ [][MapNext]_vars

---------------------------------------------------------------------------
(* ScrapeWorkflow.run: one step for each activity awaited.  An activity
   either returns or raises; which of the two is not the workflow's choice. *)

\* the most sites one run leases
MaxLeases == 3

\* the _id of the sites the back end holds
Sites == { "s1", "s2" }

\* the history entry of a site just leased: no scrape stored, neither
\* complete_site nor fail_site called
NewLease(s) == [ site |-> s, scrape_id |-> 0, completed |-> NoSite, failed |-> NoSite ]

\* the sites complete_site has marked, which the next lease skips
Completed == { leases[i].completed : i \in DOMAIN leases } \ { NoSite }

\* the id the back end gives the next scrape stored
NextScrapeId == Cardinality({ i \in DOMAIN leases : leases[i].scrape_id # 0 }) + 1

\* the history with field f of the entry of the current site set to v
Noted(f, v) == [ leases EXCEPT ![Len(leases)] = [ @ EXCEPT ![f] = v ] ]

ScrapeInit ==
    /\ pc = "lease"
    /\ ScrapeIdle
    /\ FillIdle
    /\ TreeIdle
    /\ MapIdle
    /\ ScanIdle
    /\ NormIdle
    /\ PlanIdle
    /\ WalkIdle
    /\ ParIdle

\* lines 36-45 and 75: site = lease_site(...); no site ends the loop and
\* returns the summary; a site is counted
LeaseSite ==
    /\ pc = "lease"
    /\ \/ \E s \in Sites \ Completed :
            /\ leased_count < MaxLeases
            /\ site' = s
            /\ leased_count' = leased_count + 1
            /\ leases' = Append(leases, NewLease(s))
            /\ pc' = "scrape"
            /\ UNCHANGED <<scrape_ids, summary>>
       \/ /\ summary' = [ site_count |-> leased_count, scrape_ids |-> scrape_ids ]
          /\ pc' = "returned"
          /\ UNCHANGED <<site, scrape_ids, leased_count, leases>>
       \/ /\ pc' = "raised"
          /\ UNCHANGED scrapeVars
    /\ UNCHANGED <<scanVars, normVars, planVars, walkVars, parVars, treeVars, mapVars, fillVars>>

\* lines 48-52: res = scrape_site(site); an exception goes to line 66
ScrapeSite ==
    /\ pc = "scrape"
    /\ \E ok \in BOOLEAN : pc' = (IF ok THEN "store" ELSE "fail")
    /\ UNCHANGED <<scanVars, normVars, planVars, walkVars, parVars, treeVars, mapVars, wfVars>>

\* lines 53-58: scrape_id = store_scrape(res); scrape_ids.append(scrape_id)
StoreScrape ==
    /\ pc = "store"
    /\ \/ /\ scrape_ids' = Append(scrape_ids, NextScrapeId)
          /\ leases' = Noted("scrape_id", NextScrapeId)
          /\ pc' = "complete"
       \/ /\ pc' = "fail"
          /\ UNCHANGED <<scrape_ids, leases>>
    /\ UNCHANGED <<site, leased_count, summary>>
    /\ UNCHANGED <<scanVars, normVars, planVars, walkVars, parVars, treeVars, mapVars, fillVars>>

\* lines 61-65: complete_site(site["_id"]), inside the try block
CompleteSite ==
    /\ pc = "complete"
    /\ \/ /\ leases' = Noted("completed", site)
          /\ pc' = "lease"
       \/ /\ pc' = "fail"
          /\ UNCHANGED leases
    /\ UNCHANGED <<site, scrape_ids, leased_count, summary>>
    /\ UNCHANGED <<scanVars, normVars, planVars, walkVars, parVars, treeVars, mapVars, fillVars>>

\* lines 66-73: fail_site(site["_id"], str(e)); an exception of it leaves run
FailSite ==
    /\ pc = "fail"
    /\ leases' = Noted("failed", site)
    /\ \E ok \in BOOLEAN : pc' = (IF ok THEN "lease" ELSE "raised")
    /\ UNCHANGED <<site, scrape_ids, leased_count, summary>>
    /\ UNCHANGED <<scanVars, normVars, planVars, walkVars, parVars, treeVars, mapVars, fillVars>>

ScrapeNext ==
    \/ LeaseSite
    \/ ScrapeSite
    \/ StoreScrape
    \/ CompleteSite
    \/ FailSite

SpecScrape == ScrapeInit /\ [][ScrapeNext]_vars

---------------------------------------------------------------------------
(* The starter loop handing one leased queue item to FormFillWorkflow.run,
   and the run itself: one step for each call awaited, which either
   returns or raises. *)

QueueIds == { "q1", "q2", "q3" }

JobUrls == { "u1", "u2" }

UserIds == { "p1", "p2" }

\* one activity invoked: by whom, which, its first argument, whether it returned
Call(by, activity, arg, ok) == [ by |-> by, activity |-> activity, arg |-> arg, ok |-> ok ]

\* worker.py 65-70: leased = lease_next_ai_application(), an item of the queue
FillInit ==
    /\ pc = "start"
    /\ leased \in [ _id : QueueIds, jobUrl : JobUrls, userId : UserIds ]
    /\ queue_id = ""
    /\ job_url = ""
    /\ user_id = ""
    /\ fill_result = NoResult
    /\ fill_calls = << >>
    /\ ScrapeIdle
    /\ TreeIdle
    /\ MapIdle
    /\ ScanIdle
    /\ NormIdle
    /\ PlanIdle
    /\ WalkIdle
    /\ ParIdle

\* worker.py 71-85: client.start_workflow(FormFillWorkflow.run, args=[qid, url, uid]);
\* when it raises the starter calls fail_ai_application(qid, ...) itself and
\* swallows an exception of that call
StartWorkflow ==
    /\ pc = "start"
    /\ \/ /\ queue_id' = leased._id
          /\ job_url' = leased.jobUrl
          /\ user_id' = leased.userId
          /\ pc' = "get_resume"
          /\ UNCHANGED fill_calls
       \/ /\ \E ok \in BOOLEAN :
               fill_calls' = Append(fill_calls,
                               Call("starter", "fail_ai_application", leased._id, ok))
          /\ pc' = "not_started"
          /\ UNCHANGED <<queue_id, job_url, user_id>>
    /\ UNCHANGED <<leased, fill_result>>
    /\ UNCHANGED <<scanVars, normVars, planVars, walkVars, parVars, treeVars, mapVars, scrapeVars>>

\* form_fill_workflow.py 29-33: resume = get_resume_for_user(user_id)
GetResumeForUser ==
    /\ pc = "get_resume"
    /\ \E ok \in BOOLEAN :
         /\ fill_calls' = Append(fill_calls, Call("workflow", "get_resume_for_user", user_id, ok))
         /\ pc' = (IF ok THEN "run_form_fill" ELSE "fail")
    /\ UNCHANGED <<leased, queue_id, job_url, user_id, fill_result>>
    /\ UNCHANGED <<scanVars, normVars, planVars, walkVars, parVars, treeVars, mapVars, scrapeVars>>

\* form_fill_workflow.py 34-38: result = run_form_fill(job_url, resume)
RunFormFill ==
    /\ pc = "run_form_fill"
    /\ \E ok \in BOOLEAN :
         /\ fill_calls' = Append(fill_calls, Call("workflow", "run_form_fill", job_url, ok))
         /\ pc' = (IF ok THEN "complete" ELSE "fail")
    /\ UNCHANGED <<leased, queue_id, job_url, user_id, fill_result>>
    /\ UNCHANGED <<scanVars, normVars, planVars, walkVars, parVars, treeVars, mapVars, scrapeVars>>

\* complete_ai_application raising and the exception swallowed: COMPLETED
\* is returned all the same
CompleteAiApplicationSwallowed ==
    /\ pc = "complete"
    /\ fill_calls' = Append(fill_calls,
                        Call("workflow", "complete_ai_application", queue_id, FALSE))
    /\ fill_result' = [ queue_id |-> queue_id, status |-> "COMPLETED" ]
    /\ pc' = "returned"
    /\ UNCHANGED <<leased, queue_id, job_url, user_id>>
    /\ UNCHANGED <<scanVars, normVars, planVars, walkVars, parVars, treeVars, mapVars, scrapeVars>>

\* form_fill_workflow.py 39-45: complete_ai_application(queue_id, ...), then
\* return FormFillResult(queue_id, "COMPLETED"); an exception goes to line 46
CompleteAiApplication ==
    /\ pc = "complete"
    /\ \E ok \in BOOLEAN :
         /\ fill_calls' = Append(fill_calls,
                             Call("workflow", "complete_ai_application", queue_id, ok))
         /\ fill_result' = (IF ok THEN [ queue_id |-> queue_id, status |-> "COMPLETED" ]
                                  ELSE fill_result)
         /\ pc' = (IF ok THEN "returned" ELSE "fail")
    /\ UNCHANGED <<leased, queue_id, job_url, user_id>>
    /\ UNCHANGED <<scanVars, normVars, planVars, walkVars, parVars, treeVars, mapVars, scrapeVars>>

\* form_fill_workflow.py 46-53: fail_ai_application(queue_id, str(e)), then
\* return FormFillResult(queue_id, "ERROR"); an exception of the call leaves run
FailAiApplication ==
    /\ pc = "fail"
    /\ \E ok \in BOOLEAN :
         /\ fill_calls' = Append(fill_calls,
                             Call("workflow", "fail_ai_application", queue_id, ok))
         /\ fill_result' = (IF ok THEN [ queue_id |-> queue_id, status |-> "ERROR" ]
                                  ELSE fill_result)
         /\ pc' = (IF ok THEN "returned" ELSE "raised")
    /\ UNCHANGED <<leased, queue_id, job_url, user_id>>
    /\ UNCHANGED <<scanVars, normVars, planVars, walkVars, parVars, treeVars, mapVars, scrapeVars>>

FillNext ==
    \/ StartWorkflow
    \/ GetResumeForUser
    \/ RunFormFill
    \/ CompleteAiApplication
    \/ FailAiApplication

SpecFill == FillInit /\ [][FillNext]_vars

---------------------------------------------------------------------------
(* Properties of the scan *)

\* the ancestors of node i, root first, read off the parent links
RECURSIVE AncestorsOf(_, _)
AncestorsOf(t, i) ==
    IF t[i].parent = 0 THEN << >>
    ELSE Append(AncestorsOf(t, t[i].parent), t[i].parent)

\* the position of node i in the pre-order of the tree
PreorderIndex(t, i) == CHOOSE k \in 1..Len(t) : _walk(t, 1)[k] = i

TextNodes(t) ==
    { i \in DOMAIN t : t[i].role \in TEXT_INPUT_ROLES /\ _norm_text(t[i].name) # S0 }

NodeKey(t, i) == <<t[i].role, _norm_text(t[i].name)>>

\* the pre-order position of the first node of the tree with key k
FirstOccurrence(t, k) ==
    CHOOSE n \in 1..Len(t) :
        /\ \E i \in TextNodes(t) : NodeKey(t, i) = k /\ PreorderIndex(t, i) = n
        /\ \A i \in TextNodes(t) : NodeKey(t, i) = k => PreorderIndex(t, i) >= n

IsTextField(f) == f.role \in TEXT_INPUT_ROLES

\* C7: the scan returns no two descriptors with the same (role, normalized
\* name) pair; every text-like node of the tree has its descriptor, and the
\* text-like descriptors stand in the order of the first occurrences of
\* their keys in the tree (a later duplicate does not move its descriptor).
C7_UniqueKeys ==
    pc = "scanned" =>
      /\ \A i, j \in DOMAIN all_fields :
           i < j => <<all_fields[i].role, _norm_text(all_fields[i].name)>>
                      # <<all_fields[j].role, _norm_text(all_fields[j].name)>>
      /\ { FieldKey(all_fields[i]) : i \in { k \in DOMAIN all_fields :
                                              IsTextField(all_fields[k]) } }
           = { NodeKey(ax_full, n) : n \in TextNodes(ax_full) }
      /\ \A i, j \in DOMAIN all_fields :
           (i < j /\ IsTextField(all_fields[i]) /\ IsTextField(all_fields[j]))
             => FirstOccurrence(ax_full, FieldKey(all_fields[i]))
                  < FirstOccurrence(ax_full, FieldKey(all_fields[j]))

\* a scanned tree in which a text key occurs twice with another text key
\* between the two occurrences
C7_Witness ==
    /\ pc = "scanned"
    /\ \E a, b, c \in TextNodes(ax_full) :
         /\ PreorderIndex(ax_full, a) < PreorderIndex(ax_full, b)
         /\ PreorderIndex(ax_full, b) < PreorderIndex(ax_full, c)
         /\ NodeKey(ax_full, a) = NodeKey(ax_full, c)
         /\ NodeKey(ax_full, a) # NodeKey(ax_full, b)
         /\ ax_full[a].name # ax_full[c].name
    /\ Len(all_fields) = 2

\* the label under which the scan files node i, and the options it
\* collects at that node
OccurrenceContainer(t, i) == _nearest_container(t, i, AncestorsOf(t, i))

OccurrenceLabel(t, i) ==
    IF OccurrenceContainer(t, i).label # S0
      THEN OccurrenceContainer(t, i).label
      ELSE _norm_text(t[i].name)

OccurrenceOptions(t, i) ==
    LET c == OccurrenceContainer(t, i).container
        own == Range(_collect_options_for_container(t, c).options)
        detached ==
          UNION { Range(_collect_options_for_container(t, lb).options) :
                    lb \in { n \in DOMAIN t :
                               /\ t[n].role = "listbox"
                               /\ _norm_text(t[n].name) = OccurrenceLabel(t, i) } }
    IN  IF own = { } /\ "combobox" \in { t[i].role, t[c].role }
          THEN detached
          ELSE own

\* the nodes the scan files under label L
Occurrences(t, L) ==
    { i \in DOMAIN t : t[i].role \in grouped_roles /\ OccurrenceLabel(t, i) = L }

GroupLabels(t) ==
    { OccurrenceLabel(t, i) : i \in { n \in DOMAIN t : t[n].role \in grouped_roles } }
      \ { S0 }

IsAscending(q) == \A i, j \in DOMAIN q : i < j => StrLess(q[i], q[j])

\* C8: every group label of the tree has exactly one grouped descriptor,
\* and its options are exactly the union of the options collected at every
\* occurrence of the label in the tree, as an ascending sequence without
\* repetition.
C8_OptionsUnion ==
    pc = "scanned" =>
      /\ \A L \in GroupLabels(ax_full) :
           Cardinality({ k \in DOMAIN all_fields :
                           ~IsTextField(all_fields[k]) /\ all_fields[k].name = L }) = 1
      /\ \A k \in DOMAIN all_fields :
           ~IsTextField(all_fields[k]) =>
             /\ all_fields[k].name \in GroupLabels(ax_full)
             /\ Range(all_fields[k].options)
                  = UNION { OccurrenceOptions(ax_full, i) :
                              i \in Occurrences(ax_full, all_fields[k].name) }
             /\ IsAscending(all_fields[k].options)

\* a scanned tree in which two occurrences of one label hold different
\* options and the descriptor holds both
C8_Witness ==
    /\ pc = "scanned"
    /\ \E k \in DOMAIN all_fields :
         /\ Len(all_fields[k].options) = 2
         /\ \E i, j \in Occurrences(ax_full, all_fields[k].name) :
              /\ OccurrenceOptions(ax_full, i) # { }
              /\ OccurrenceOptions(ax_full, j) # { }
              /\ OccurrenceOptions(ax_full, i) \cap OccurrenceOptions(ax_full, j) = { }

---------------------------------------------------------------------------
(* Properties of the walker *)

LoopStopped == pc \in { "report", "returned" }

\* the snapshot of this iteration shows an editable node with the stable
\* label of the run's first editable node, with at least
\* loop_detect_threshold stable labels seen, this one included, and at
\* least one field recorded
AtClosedLoop ==
    /\ pc = "observe"
    /\ iter < max_tabs
    /\ FEditable
    /\ first_stable_label \in { None, FStable }
    /\ Cardinality(unique_stable_labels \cup { FStable }) >= loop_detect_threshold
    /\ seen_labels # { }

\* C1: whenever an iteration observes (its snapshot succeeds) an editable
\* node at a closed loop, that step issues exactly one Shift+Tab, sends no
\* Tab, appends no event, sets ended_reason to loop_detected and leaves the
\* loop; from then on no key is sent and no event appended, the report is
\* all that follows; and on the three-text-field page with threshold 3,
\* after the observations A, B, C the fourth observation, of A, is at a
\* closed loop and none before it stopped the run.
C1_LoopDetection ==
    /\ [][ (AtClosedLoop /\ pc' # "raised") =>
             /\ shift_tabs' = shift_tabs + 1
             /\ tabs_sent' = tabs_sent
             /\ fill_events' = fill_events
             /\ ended_reason' = "loop_detected"
             /\ backtracked'
             /\ pc' = "report" ]_vars
    /\ [][ ended_reason = "loop_detected" =>
             /\ shift_tabs' = shift_tabs
             /\ tabs_sent' = tabs_sent
             /\ fill_events' = fill_events
             /\ ended_reason' = ended_reason
             /\ pc = "report"
             /\ pc' = "returned" ]_vars
    /\ [](( /\ page[2].name = Str("A")
            /\ loop_detect_threshold = 3
            /\ pc = "observe"
            /\ iter = 3
            /\ iter < max_tabs
            /\ labels = <<Str("A"), Str("B"), Str("C")>>
            /\ focus = 2 )
          => (AtClosedLoop /\ ended_reason = "None"))

\* the run A, B, C, A with threshold 3, stopped at the fourth observation
C1_Witness ==
    /\ pc = "returned"
    /\ ended_reason = "loop_detected"
    /\ loop_detect_threshold = 3
    /\ labels = <<Str("A"), Str("B"), Str("C")>>
    /\ iter = 3
    /\ tabs_sent = 3
    /\ shift_tabs = 1
    /\ Len(fill_events) = 3
    /\ fill_log.written

\* the iteration in progress saw the key of the three snapshots before it
FourthSameKey == key # NoKey /\ key = last_key /\ stuck_count = 2

C3_Terminates ==
    /\ <>Done
    /\ [](/\ iter <= max_tabs
          /\ tabs_sent <= max_tabs
          /\ tries <= RADIO_MAX_TRIES
          /\ arrow_presses <= RADIO_MAX_TRIES)

\* a run ended by the ceiling alone: no loop, nothing stuck, every Tab sent
C3_Witness ==
    /\ pc = "returned"
    /\ ended_reason = "None"
    /\ max_tabs = MaxTabs
    /\ iter = max_tabs
    /\ tabs_sent = max_tabs
    /\ fill_events # << >>

\* C4 as stated: when the loop has stopped, ended_reason names one of the
\* four terminal states, the ceiling too.
C4_Original == LoopStopped => ended_reason # "None"

\* C4: when the loop has stopped the run is in exactly one of four
\* terminal states, told apart by ended_reason: None (no reason) exactly
\* when the ceiling stopped it, every iteration run to its end;
\* loop_detected exactly when it backtracked; focus_stuck after the Tab of
\* the iteration, with the stuck count at its limit; tab_press_failed
\* without that Tab; and a report that is written carries ended_reason.
C4_TerminalStates ==
    LoopStopped =>
      /\ ended_reason \in { "None", "loop_detected", "focus_stuck", "tab_press_failed" }
      /\ (ended_reason = "None") = (iter = max_tabs)
      /\ (ended_reason = "None") => (tabs_sent = max_tabs)
      /\ (ended_reason = "loop_detected") = backtracked
      /\ (ended_reason = "focus_stuck")
           => (stuck_count = STUCK_LIMIT /\ tabs_sent = iter + 1)
      /\ (ended_reason = "tab_press_failed")
           => (stuck_count < STUCK_LIMIT /\ tabs_sent = iter)
      /\ fill_log.written
           => /\ fill_log.ended_reason = ended_reason
              /\ fill_log.loop_detected = (ended_reason = "loop_detected")

\* a run stopped by the ceiling whose report has no reason
C4_Witness ==
    /\ pc = "returned"
    /\ iter = max_tabs
    /\ fill_log.written
    /\ fill_log.ended_reason = "None"
    /\ fill_log.events # << >>

\* C5 as stated: every fill run that returns has written a report.
C5_Original == pc = "returned" => fill_log.written

\* C5: a fill run that returns has written a report exactly if it
\* appended an event or stopped with a reason, and the report then holds
\* the reason, the Tabs sent, the sorted labels and the events; a run that
\* stops at the ceiling without an event, and a run that an exception
\* ended, have written none.
C5_ReportWhenDue ==
    /\ pc = "returned" =>
         /\ fill_log.written = (fill_events # << >> \/ ended_reason # "None")
         /\ fill_log.written =>
              /\ fill_log.ended_reason = ended_reason
              /\ fill_log.tabs_sent = tabs_sent
              /\ Range(fill_log.unique_fields) = seen_labels
              /\ IsAscending(fill_log.unique_fields)
              /\ fill_log.events = fill_events
    /\ pc # "returned" => ~fill_log.written

\* a report of a run that filled nothing: the first Tab press failed
C5_Witness ==
    /\ pc = "returned"
    /\ fill_log.written
    /\ fill_log.events = << >>
    /\ fill_log.ended_reason = "tab_press_failed"
    /\ fill_log.tabs_sent = 0

\* C6 as stated: no exception leaves the walker while a field is being
\* processed (field is the field of the iteration, NoField outside the
\* processing of one).
C6_NoEscape == pc = "raised" => field = NoField

\* the events of the end-to-end scenario
TrickyEvents ==
    << TypedEvent(Str("Full Name *"), PyStr(Str("Jane Doe")), "True"),
       SelectedEvent(Str("Preferred City"), Str("Remote"), "True"),
       SelectedEvent(Str("Authorized to work?"), Str("Yes"), "True") >>

\* the run of the end-to-end scenario has returned, every browser call
\* having done what it was asked to, after at least four iterations
TrickyRunDone ==
    /\ pc = "returned"
    /\ page[2].name = Str("Full Name *")
    /\ resume_data = TrickyProfile
    /\ max_tabs >= 4
    /\ clean

\* C13: on the form Full Name * (textbox), Preferred City (combobox with
\* the options Remote and Onsite), Authorized to work? (radiogroup with Yes
\* and No) and a profile whose work status is citizen, a scan followed by a
\* fill run in which every browser call succeeds ends with a report whose
\* events are: Full Name * typed Jane Doe, Preferred City selected Remote,
\* Authorized to work? selected Yes, each confirmed true, in that order.
C13_EndToEnd ==
    TrickyRunDone =>
      /\ fill_events = TrickyEvents
      /\ fill_log.written
      /\ fill_log.events = TrickyEvents

\* the iteration's snapshot shows focus on a node that is a button, or
\* disabled, or read-only, and the iteration goes on with it
AtNonEditable ==
    /\ pc = "observe"
    /\ ~RangeExhausted(iter, max_tabs)
    /\ Focused.found # 0
    /\ \/ FRole = "button"
       \/ Ax[Focused.found].disabled
       \/ Ax[Focused.found].readonly
    /\ pc' # "raised"

\* nothing is recorded, typed or logged, and the iteration goes on to Tab
NothingRecorded ==
    /\ pc' = "advance"
    /\ UNCHANGED <<seen_keys, seen_labels, labels, last_container_label,
                   fill_events, page, focus>>

\* the step adds the focused button's name to the button set kept under
\* label, and changes no other button set
ButtonNoted(label) ==
    /\ pc = "observe"
    /\ Focused.found # 0
    /\ FRole = "button"
    /\ FContainer.label = label
    /\ DOMAIN field_buttons' = DOMAIN field_buttons \cup { label }
    /\ field_buttons'[label] =
         (IF label \in DOMAIN field_buttons THEN field_buttons[label] ELSE { })
           \cup { FName }
    /\ \A l \in DOMAIN field_buttons : l # label => field_buttons'[l] = field_buttons[l]

\* C14 as stated: a focused non-editable node records nothing, and the
\* button sets change only by a focused button's name going to the set of
\* the container of the field focused immediately before it, the button's
\* own container label being that container's label.
C14_Original ==
    [][ /\ AtNonEditable => NothingRecorded
        /\ field_buttons' # field_buttons => ButtonNoted(prev_container)
      ]_vars

\* C14: when the focused node is not editable (a button, a disabled or a
\* read-only input) no key joins the visited set, no label is recorded, no
\* fill keystroke is sent and no event is appended; the button sets change
\* only by a focused button's name going to the set kept under the
\* container label of the field recorded last (the last editable node
\* whose key was new), the button's own container label being that label.
C14_NonEditable ==
    [][ /\ AtNonEditable => NothingRecorded
        /\ field_buttons' # field_buttons => ButtonNoted(last_container_label)
      ]_vars

\* the button Go of the group Visa? noted under the group's label, after a
\* radio of the group was recorded and the text field, seen before, was
\* focused again; the button's key is not in the visited set
C14_Witness ==
    /\ pc = "advance"
    /\ key = Key("button", Str("Go"))
    /\ key \notin seen_keys
    /\ Str("Visa?") \in DOMAIN field_buttons
    /\ field_buttons[Str("Visa?")] = { Str("Go") }
    /\ last_container_label = Str("Visa?")
    /\ prev_container = Str("Full Name")
    /\ fill_events # << >>

\* the iteration recorded a new field and has come to its Tab press
NewFieldProcessed == pc = "advance" /\ field # NoField

\* the events appended since the iteration began
EventsOfIteration == SubSeq(fill_events, events_before + 1, Len(fill_events))

\* C15: an iteration whose focused node is editable and whose key was not
\* seen before records the key and appends at least one event for that
\* field before it goes on to the next Tab press, whatever the role of the
\* field and whether or not a value was resolved for it.
C15_EveryNewFieldLogged ==
    NewFieldProcessed =>
      /\ key \in seen_keys
      /\ EventsOfIteration # << >>
      /\ \A i \in DOMAIN EventsOfIteration :
           EventsOfIteration[i].field = field.label_text

\* the navigation of a radio with a target is over and its event appended
RadioNavigated == pc = "advance" /\ field.role = "radio" /\ target # S0

\* the accessible name of the node that has focus, "" when none has
FocusedName == IF Focused.found = 0 THEN S0 ELSE FName

\* C16: for a radio with a target, ArrowDown is pressed at most 6 times, and
\* the confirmed flag of the radio's event is true exactly when the name of
\* the focused node equals the target at the moment the navigation ends,
\* also when the target is reached by the last permitted press.
C16_RadioConfirmed ==
    RadioNavigated =>
      /\ arrow_presses <= RADIO_MAX_TRIES
      /\ EventsOfIteration # << >>
      /\ fill_events[Len(fill_events)] =
           SelectedEvent(field.label_text, target, PyBool(FocusedName = target))

\* str(ex).lower() in {"yes", "true", "checked"}
ImpliesChecked(ex) == Lower(str_of(ex)) \in { Str("yes"), Str("true"), Str("checked") }

\* C17: when focus lands on a new editable checkbox, Space is pressed if
\* the resolved value is yes, true or checked in any letter case and not
\* otherwise, and one event is appended for the checkbox, its confirmed
\* outcome unknown.
C17_CheckboxToggled ==
    (NewFieldProcessed /\ field.role = "checkbox") =>
      /\ space_presses = (IF ImpliesChecked(field.ex) THEN 1 ELSE 0)
      /\ Len(EventsOfIteration) = 1
      /\ EventsOfIteration[1].field = field.label_text
      /\ EventsOfIteration[1].confirmed = "None"

\* a new combobox or listbox with a value has been filled
SelectFilled ==
    /\ NewFieldProcessed
    /\ field.role \in { "combobox", "listbox" }
    /\ Truthy(field.ex)

\* the values of a planned value: the items of a list, or the one scalar
ValuesOf(ex) == IF ex.t = "list" THEN ex.v ELSE << ex.v[1] >>

\* C18: for a new combobox or listbox with a non-empty value the iteration
\* appends exactly one event per value, in the order of the list (a scalar
\* being a list of one): the event names the field and the value, and its
\* confirmed flag is True when the option click went through or the typed
\* fallback did, and unknown when both failed; no exception leaves the
\* selection.
C18_OneEventPerValue ==
    /\ SelectFilled =>
         /\ Len(EventsOfIteration) = Len(ValuesOf(field.ex))
         /\ DOMAIN select_outcomes = DOMAIN ValuesOf(field.ex)
         /\ \A i \in DOMAIN EventsOfIteration :
              EventsOfIteration[i] =
                [ field |-> field.label_text, kind |-> "selected",
                  value |-> ValuesOf(field.ex)[i], multi |-> FALSE, tokens |-> << >>,
                  confirmed |-> IF select_outcomes[i] = "failed" THEN "None" ELSE "True" ]
    /\ pc = "raised" => field.role \notin { "combobox", "listbox" }

\* the list Rome, Oslo selected into the combobox City: Rome by the typed
\* fallback, Oslo failing both ways
C18_Witness ==
    /\ SelectFilled
    /\ field.ex = PyList(<< Str("Rome"), Str("Oslo") >>)
    /\ select_outcomes = << "typed", "failed" >>
    /\ Len(EventsOfIteration) = 2
    /\ EventsOfIteration[1].value = Str("Rome")
    /\ EventsOfIteration[1].confirmed = "True"
    /\ EventsOfIteration[2].value = Str("Oslo")
    /\ EventsOfIteration[2].confirmed = "None"

\* q begins with p
IsPrefix(p, q) == Len(p) <= Len(q) /\ SubSeq(q, 1, Len(p)) = p

StopReasons == { "loop_detected", "focus_stuck", "tab_press_failed" }

\* C20: the list of events only grows at its end: every step keeps the
\* events there are, in their order. Once the run has stopped for
\* loop_detected, focus_stuck or tab_press_failed no event is appended, and
\* the report written then holds exactly the events appended before the
\* stop, in the order they were appended.
C20_AppendOnly ==
    [][ /\ IsPrefix(fill_events, fill_events')
        /\ ended_reason' \in StopReasons => fill_events' = fill_events
        /\ (pc = "report" /\ pc' = "returned" /\ ended_reason \in StopReasons) =>
             /\ fill_log'.written
             /\ fill_log'.events = fill_events
      ]_vars

\* a run stopped by a failing Tab press after two iterations that each
\* appended an event, its report holding those events
C20_Witness ==
    /\ pc = "returned"
    /\ ended_reason = "tab_press_failed"
    /\ Len(fill_events) >= 2
    /\ events_before >= 1
    /\ events_before < Len(fill_events)
    /\ fill_log.written
    /\ fill_log.events = fill_events

---------------------------------------------------------------------------
(* Properties of the runs side by side *)

\* what run i leaves behind and returns when no other run is there
AloneFilled(job) ==
    IF ReportDue(job.events, job.ended_reason)
      THEN ExtractEvents(EmptyDict, job.events)
      ELSE EmptyDict

RunUntouched(i) ==
    /\ files[run[i].fields_path] = ParFieldsDoc(run[i].job)
    /\ ReportDue(run[i].job.events, run[i].job.ended_reason)
         => files[run[i].fill_log_path] = ParFillDoc(run[i].job)
    /\ run[i].filled = AloneFilled(run[i].job)

\* C19: two fill runs in parallel do not interfere: under every
\* interleaving, the fields document, the event log and the fill report of
\* a run that is over are what the run would have left had it run alone,
\* also when both runs write to the same directory within the same second
C19_NoInterference ==
    \A i \in Runs : run # << >> /\ run[i].at = "done" => RunUntouched(i)

---------------------------------------------------------------------------
(* Properties of a repeated scan *)

---------------------------------------------------------------------------
(* Properties of the grouped descriptors *)

InSubtree(t, i, c) == i = c \/ \E k \in DOMAIN AncestorsOf(t, i) : AncestorsOf(t, i)[k] = c

\* the names of the option nodes under node c
OptionNamesUnder(t, c) ==
    { _norm_text(t[n].name) :
        n \in { m \in DOMAIN t : t[m].role = "option" /\ InSubtree(t, m, c) } } \ { S0 }

\* the listboxes outside combobox c that carry its accessible name
DetachedPopups(t, c) ==
    { lb \in DOMAIN t :
        /\ t[lb].role = "listbox"
        /\ ~InSubtree(t, lb, c)
        /\ _norm_text(t[lb].name) = _norm_text(t[c].name) }

DetachedCombobox(t, c) ==
    /\ t[c].role = "combobox"
    /\ _norm_text(t[c].name) # S0
    /\ OptionNamesUnder(t, c) = { }
    /\ DetachedPopups(t, c) # { }

\* C22: a combobox without option nodes of its own, whose name a listbox
\* elsewhere in the tree carries (before or after it), gets a descriptor
\* of role combobox whose options are the options of that listbox
C22_DetachedListbox ==
    pc = "scanned" =>
      \A c \in DOMAIN ax_full :
        DetachedCombobox(ax_full, c) =>
          \E k \in DOMAIN all_fields :
            /\ all_fields[k].name = _norm_text(ax_full[c].name)
            /\ all_fields[k].role = "combobox"
            /\ Range(all_fields[k].options)
                 = UNION { OptionNamesUnder(ax_full, lb) : lb \in DetachedPopups(ax_full, c) }

\* node c is an option-bearing container that the scan files under its
\* own name
IsOwnContainer(t, c) ==
    /\ t[c].role \in { "combobox", "listbox", "radiogroup", "group" }
    /\ _norm_text(t[c].name) # S0
    /\ OccurrenceContainer(t, c).container = c

\* the options under the containers of one role and one label
OptionsOfRole(t, role, L) ==
    UNION { Range(_collect_options_for_container(t, e).options) :
              e \in { n \in DOMAIN t :
                         /\ IsOwnContainer(t, n)
                         /\ t[n].role = role
                         /\ _norm_text(t[n].name) = L } }

\* C25: grouped descriptors are keyed by (group-role, group-label): two
\* option-bearing containers with one label and different roles yield a
\* descriptor for each role, holding only the options of the containers
\* of that role
C25_KeyedByRoleAndLabel ==
    pc = "scanned" =>
      \A c, d \in DOMAIN ax_full :
        ( /\ IsOwnContainer(ax_full, c)
          /\ IsOwnContainer(ax_full, d)
          /\ _norm_text(ax_full[c].name) = _norm_text(ax_full[d].name)
          /\ ax_full[c].role # ax_full[d].role )
        => \E k \in DOMAIN all_fields :
             /\ all_fields[k].role = ax_full[c].role
             /\ all_fields[k].name = _norm_text(ax_full[c].name)
             /\ Range(all_fields[k].options)
                  = OptionsOfRole(ax_full, ax_full[c].role, _norm_text(ax_full[c].name))

---------------------------------------------------------------------------
(* Properties of the chip input *)

ChipFilled == pc = "advance" /\ chip_outcomes # << >>

ChipEvent == fill_events[Len(fill_events)]

\* C23 as stated: the event's typed value is the resolved value as it is,
\* every token typed is the best match of its piece among the page's
\* multi-select options, the token list holds the typed tokens whose
\* sequence did not raise, in order, and confirmed is true exactly when
\* every committed token is in the page text, unknown with no token
C23_Original ==
    ChipFilled =>
      /\ ChipEvent.value = str_of(field.ex)
      /\ \A i \in DOMAIN Pieces(field.ex) :
           chip_outcomes.typed[i] = _best_option_local(Pieces(field.ex)[i], AvailableOptions)
      /\ ChipEvent.tokens = Flagged(chip_outcomes.typed, chip_outcomes.committed)
      /\ ChipEvent.confirmed =
           IF ChipEvent.tokens = << >> THEN "None" ELSE PyBool(chip_outcomes.visible)

\* C23: the same, where the options are those the page let the walker
\* read (none when reading them raised) and confirmed is unknown also
\* when the page text could not be read
C23_ChipEvent ==
    ChipFilled =>
      /\ ChipEvent.value = str_of(field.ex)
      /\ \A i \in DOMAIN Pieces(field.ex) :
           chip_outcomes.typed[i] =
             _best_option_local(Pieces(field.ex)[i],
                                IF chip_outcomes.evaluated THEN AvailableOptions ELSE << >>)
      /\ ChipEvent.tokens = Flagged(chip_outcomes.typed, chip_outcomes.committed)
      /\ ChipEvent.confirmed =
           IF ChipEvent.tokens = << >> \/ ~chip_outcomes.probed
             THEN "None"
             ELSE PyBool(chip_outcomes.visible)

\* a chip input whose first piece is typed as an option that differs from
\* it, with both tokens committed and found in the page text
C23_Witness ==
    /\ ChipFilled
    /\ chip_outcomes.typed[1] # Pieces(field.ex)[1]
    /\ Len(ChipEvent.tokens) = 2
    /\ ChipEvent.confirmed = "True"
    /\ ChipEvent.value # JoinComma(ChipEvent.tokens)

---------------------------------------------------------------------------
(* Properties of the loop signal *)

\* the iteration's snapshot shows an editable node that carries the label
\* of the run's first editable field, with the threshold of distinct
\* labels reached
FirstLabelAgain ==
    /\ pc = "observe"
    /\ ~RangeExhausted(iter, max_tabs)
    /\ FEditable
    /\ first_stable_label # None
    /\ FStable = first_stable_label
    /\ Cardinality(UniqueAfter) >= loop_detect_threshold

\* C24: when the walker reaches an editable field that carries the stable
\* label of the run's first editable field (a later, different field
\* included) with loop_detect_threshold distinct labels seen, the run
\* ends with loop_detected and the field is not filled; after that no
\* field is visited or filled
C24_FalsePositiveLoop ==
    [][ /\ (FirstLabelAgain /\ pc' # "raised"
              => /\ ended_reason' = "loop_detected"
                 /\ pc' = "report"
                 /\ fill_events' = fill_events
                 /\ seen_keys' = seen_keys)
        /\ (ended_reason = "loop_detected"
              => /\ pc' = "returned"
                 /\ fill_events' = fill_events
                 /\ seen_keys' = seen_keys
                 /\ labels' = labels) ]_vars

\* the run ended with loop_detected on a field it had never recorded,
\* leaving a later field of the form unvisited
C24_Witness ==
    /\ Len(page) = Len(PageDup)
    /\ page[4].role = "searchbox"
    /\ ended_reason = "loop_detected"
    /\ key = Key("searchbox", Str("Q"))
    /\ key \notin seen_keys
    /\ Key("textbox", Str("Zip")) \notin seen_keys
    /\ loop_detect_threshold = 2
    /\ pc = "returned"

---------------------------------------------------------------------------
(* Properties of a field come to again *)

\* the iteration's snapshot shows an editable node the loop has come to
\* before, and the loop test does not fire
Revisited ==
    /\ pc = "observe"
    /\ ~RangeExhausted(iter, max_tabs)
    /\ FEditable
    /\ Focused.found \in visited
    /\ ~FLoopClosed

\* C26: each field is filled at most once in a run: when focus is again
\* on a field already visited and loop detection does not fire, the walker
\* goes on to the next field without a fill keystroke and without an
\* event, also when the field's accessible name echoes the value typed
C26_FilledOnce ==
    [][ Revisited /\ pc' # "raised"
          => pc' = "advance" /\ fill_events' = fill_events /\ page' = page ]_vars

---------------------------------------------------------------------------
(* Properties of a focus order that wraps *)

\* every key press so far did what was asked, so the walk went down the
\* tab order, and the snapshot shows an editable node it has come to
\* before: the tab order has wrapped to the first field
WrapReturn ==
    /\ clean
    /\ pc = "observe"
    /\ ~RangeExhausted(iter, max_tabs)
    /\ FEditable
    /\ Focused.found \in visited

\* the editable stops of the tab order
EditableStops == { n \in TabStops : _is_editable_role(page[n].role, page[n]) }

RadioUnresolved == pc = "radio_start" /\ str_of(field.ex) = S0

RadioContainer == _nearest_container(Ax, Focused.found, Focused.anc)

\* the value planned for the radiogroup or group entry of the container
ContainerValue ==
    LET clabel == RadioContainer.label
        rg == DictGet(fields_for_fill, Key("radiogroup", clabel))
        centry == IF rg.t # "absent" THEN rg
                  ELSE DictGet(fields_for_fill, Key("group", clabel))
    IN  IF clabel # S0 /\ centry.t # "absent" /\ Truthy(centry)
          THEN str_of(centry) ELSE S0

ContainerOptions ==
    Range(_collect_options_for_container(Ax, RadioContainer.container).options)

WorkStatus == Lower(ResumeGet(resume_answers_of(resume_data), "work_visa_status"))

\* the yes/no answer read off the work status
StatusAnswer ==
    IF ContainsAny(WorkStatus, unrestricted_words) THEN Str("Yes")
    ELSE IF ContainsAny(WorkStatus, sponsorship_words) THEN Str("No")
    ELSE S0

\* the answer the label-aware mapping of the profile gives for the container
LabelAnswer ==
    LET clabel == RadioContainer.label
        opts == _collect_options_for_container(Ax, RadioContainer.container).options
    IN  _map_resume_value(IF clabel # S0 THEN clabel ELSE _norm_text(Ax[Focused.found].name),
                          "radiogroup",
                          IF opts # << >> THEN opts ELSE <<Str("Yes"), Str("No")>>,
                          resume_answers_of(resume_data))

\* the focused radio is the one named Yes and the status is an unrestricted one
YesOfUnrestricted ==
    /\ resume_data.loaded
    /\ ContainsAny(WorkStatus, unrestricted_words)
    /\ _norm_text(Ax[Focused.found].name) = Str("Yes")

SingleFill ==
    /\ pc = "fill_text"
    /\ ~is_multi_value(field.ex, field.label_text)
    /\ pc' # "raised"

\* the text the walker means to type
Intended == IF Truthy(field.ex) THEN str_of(field.ex) ELSE S0

\* the focused node takes keystrokes
Responsive == page[focus].name \notin Unresponsive

TextFilled == pc = "fill_text" /\ pc' = "advance"

\* the step typed the value token by token / as one burst
ByToken == chip_outcomes' # << >>
OneBurst == text_outcomes' # << >>

\* C30 as stated: a text-like field with a value is filled token by token
\* whenever the value has a delimiter or is a list, or the label indicates
\* a multi-value input, and as one burst otherwise
C30_Original ==
    [][ TextFilled /\ Truthy(field.ex) =>
          /\ ByToken <=> has_multi_delims(field.ex) \/ looks_multi_label(field.label_text)
          /\ OneBurst <=> ~ByToken ]_vars

\* C30: a text-like field is filled token by token exactly when its label
\* indicates a multi-value input and its value, not empty, has a
\* delimiter (',', ';', the word 'and') or is a list; otherwise the whole
\* value is typed as one burst
C30_MultiValue ==
    [][ TextFilled =>
          /\ ByToken <=> /\ Truthy(field.ex)
                         /\ looks_multi_label(field.label_text)
                         /\ \/ field.ex.t = "list"
                            \/ Contains(str_of(field.ex), Str(","))
                            \/ Contains(str_of(field.ex), Str(";"))
                            \/ HasWord(Lower(str_of(field.ex)), Str("and"))
          /\ OneBurst <=> ~ByToken
          /\ OneBurst /\ Responsive /\ text_outcomes'.cleared =>
                page'[focus].value = Intended ]_vars

\* a run that typed a plain value under a multi-value label, a value with
\* a comma and a list under other labels, each as one burst
C30_Witness ==
    /\ pc = "advance"
    /\ text_outcomes # << >>
    /\ Len(fill_events) = 3
    /\ \A i \in DOMAIN fill_events :
          fill_events[i].kind = "typed" /\ ~fill_events[i].multi
    /\ looks_multi_label(fill_events[1].field)
    /\ Contains(fill_events[2].value, Str(","))
    /\ field.ex.t = "list"

(***************************************************************************)
(* The order of the scan result (lines 300-358)                            *)
(***************************************************************************)

\* the label under which the scan groups node i, S0 when it groups nothing
GroupLabelAt(t, i) ==
    LET nc == _nearest_container(t, i, AncestorsOf(t, i))
    IN  IF t[i].role \notin grouped_roles THEN S0
        ELSE IF nc.label # S0 THEN nc.label
        ELSE _norm_text(t[i].name)

\* the place in pre-order of the first node grouped under label
FirstLabelled(t, label) ==
    CHOOSE n \in 1..Len(t) :
        /\ \E i \in 1..Len(t) : GroupLabelAt(t, i) = label /\ PreorderIndex(t, i) = n
        /\ \A i \in 1..Len(t) : GroupLabelAt(t, i) = label => PreorderIndex(t, i) >= n

GroupedFields == { k \in DOMAIN all_fields : ~IsTextField(all_fields[k]) }

PreOrder == IF ax_full = << >> THEN << >> ELSE _walk(ax_full, 1)

\* the places in pre-order of the nodes that report focus
FocusedPlaces == { k \in DOMAIN PreOrder : ax_full[PreOrder[k]].focused }

FirstFocused ==
    PreOrder[CHOOSE k \in FocusedPlaces : \A j \in FocusedPlaces : k <= j]

\* C32: _find_focused_node returns the first node in pre-order that
\* reports focus, with its ancestors from the root down to its parent,
\* and (none, empty list) when no node reports focus or the tree is empty
C32_FirstFocused ==
    pc \in { "focused", "contained" } =>
      IF FocusedPlaces = { } THEN focused_node = NoNode
      ELSE /\ focused_node.found = FirstFocused
           /\ focused_node.anc = AncestorsOf(ax_full, FirstFocused)

\* two nodes report focus, the one found has two ancestors and was added
\* to the tree after the other
C32_Witness ==
    /\ pc = "focused"
    /\ Cardinality(FocusedPlaces) = 2
    /\ Len(focused_node.anc) = 2
    /\ \E k \in FocusedPlaces : PreOrder[k] < focused_node.found

(***************************************************************************)
(* The container of a node (lines 125-135)                                 *)
(***************************************************************************)

\* the ancestors of the focused node that have a container role, as
\* places in its chain of ancestors
ContainerPlaces ==
    LET anc == AncestorsOf(ax_full, focused_node.found)
    IN  { k \in DOMAIN anc :
            ax_full[anc[k]].role \in { "radiogroup", "group", "form", "listbox", "combobox" } }

\* the container the claim names for the focused node
ExpectedContainer ==
    LET i == focused_node.found
        anc == AncestorsOf(ax_full, i)
    IN  IF ax_full[i].role \in { "combobox", "listbox" } THEN i
        ELSE IF ContainerPlaces # { }
          THEN anc[CHOOSE k \in ContainerPlaces : \A j \in ContainerPlaces : j <= k]
        ELSE i

\* C33: _nearest_container returns the node itself when it is a combobox
\* or listbox, otherwise its nearest ancestor with the role radiogroup,
\* group, form, listbox or combobox, otherwise the node itself, and the
\* label is the normalized name of the container returned
C33_NearestContainer ==
    pc = "contained" /\ focused_node.found # 0 =>
      /\ nearest.container = ExpectedContainer
      /\ nearest.label = _norm_text(ax_full[nearest.container].name)

\* a radio under a group under a form: the group is the container, and
\* its label is its name without the spaces around it
C33_Witness ==
    /\ pc = "contained"
    /\ focused_node.found # 0
    /\ ax_full[focused_node.found].role = "radio"
    /\ Cardinality(ContainerPlaces) = 2
    /\ ax_full[nearest.container].role = "group"
    /\ ax_full[AncestorsOf(ax_full, nearest.container)[2]].role = "form"
    /\ nearest.label = Str("G")
    /\ nearest.label # ax_full[nearest.container].name

(***************************************************************************)
(* The answers of the profile and the options of the field (lines 536-591) *)
(***************************************************************************)

\* the label reads as a work authorization question
AuthLabel ==
    ContainsAny(Lower(map_args.field_name),
                { "authoris", "authoriz", "visa", "sponsor", "work permit", "eligib" })

\* the label reads as a how-did-you-hear question
HearLabel == Contains(Lower(map_args.field_name), Str("how did you hear"))

\* the label reads as a city availability question of a field with options
CityLabel ==
    \/ Contains(Lower(map_args.field_name), Str("what cities"))
    \/ Contains(Lower(map_args.field_name), Str("available to work"))
    \/ /\ map_args.role \in TEXT_INPUT_ROLES
       /\ \/ Contains(Lower(map_args.field_name), Str("city"))
          \/ Contains(Lower(map_args.field_name), Str("cities"))

AmongOptions == derived = S0 \/ derived \in Range(map_args.options)

\* C34 as stated: for a label of the work authorization or of the
\* how-did-you-hear kind and a non-empty option set, the value is empty
\* or one of the options
C34_Original ==
    pc = "mapped" /\ (AuthLabel \/ HearLabel) /\ map_args.options # << >>
      => AmongOptions

\* C34: for a label of the work authorization kind, or of the
\* how-did-you-hear kind and not of the city availability kind, and a
\* non-empty option set, the value is empty or one of the options
C34_AmongOptions ==
    pc = "mapped" /\ (AuthLabel \/ (HearLabel /\ ~CityLabel)) /\ map_args.options # << >>
      => AmongOptions

\* a how-did-you-hear field none of whose options is a known answer gets
\* its first option
C34_Witness ==
    /\ pc = "mapped"
    /\ HearLabel /\ ~AuthLabel /\ ~CityLabel
    /\ map_args.options = <<Str("Other"), Str("Word of mouth")>>
    /\ "heard_about_us" \in DOMAIN map_args.rdict
    /\ derived = Str("Other")

\* the work status of the profile tells of unrestricted authorization
Unrestricted ==
    ContainsAny(Lower(ResumeGet(map_args.rdict, "work_visa_status")),
                { "citizen", "permanent", "authorized", "no sponsorship" })

\* the options that say no, or that sponsorship is or will be needed
SponsorshipOptions ==
    { o \in Range(map_args.options) :
        \/ o = Str("No")
        \/ Contains(Lower(o), Str("need sponsorship")) }

\* C35: for a work authorization field with options, a profile of
\* unrestricted work status never gets a 'No' or needs-sponsorship option
C35_NeverNo ==
    pc = "mapped" /\ AuthLabel /\ map_args.options # << >> /\ Unrestricted
      => derived \notin SponsorshipOptions

(***************************************************************************)
(* What each reason to stop tells (lines 628-664, 945-976)                 *)
(***************************************************************************)

\* C36: loop_detected is given only at a snapshot whose stable label is
\* the first stable label, with at least loop_detect_threshold distinct
\* labels seen and a field recorded; backtracked is set exactly with
\* loop_detected; focus_stuck is given only when the last four snapshots
\* returned the same key, not None; and the Tab press that fails with
\* tab_press_failed is not counted in tabs_sent
C36_ReasonSound ==
    /\ [][ ended_reason' = "loop_detected" /\ ended_reason # "loop_detected" =>
             /\ FEditable
             /\ FStable = first_stable_label'
             /\ FStable \in unique_stable_labels' ]_vars
    /\ [](ended_reason = "loop_detected" =>
             /\ Cardinality(unique_stable_labels) >= loop_detect_threshold
             /\ Cardinality(seen_labels) >= 1)
    /\ [](backtracked <=> ended_reason = "loop_detected")
    /\ [](ended_reason = "focus_stuck" => snaps.key # NoKey /\ snaps.run >= 4)
    /\ [][ ended_reason' = "tab_press_failed" /\ ended_reason # "tab_press_failed" =>
             tabs_sent' = tabs_sent ]_vars
    /\ [](LoopStopped =>
             ended_reason \in { "None", "loop_detected", "focus_stuck", "tab_press_failed" })

\* a run that ended with focus_stuck after four snapshots of one field,
\* without a step back
C36_Witness ==
    /\ pc = "returned"
    /\ ended_reason = "focus_stuck"
    /\ snaps.key # NoKey
    /\ snaps.run = 4
    /\ ~backtracked
    /\ fill_log.written

---------------------------------------------------------------------------
(* Properties of ScrapeWorkflow *)

\* every site leased before the current one, and the current one too when
\* the next lease is about to be requested, had complete_site succeed or
\* fail_site invoked for it
LeaseSettled ==
    \A i \in DOMAIN leases :
      (i < Len(leases) \/ pc = "lease") =>
        \/ leases[i].completed = leases[i].site
        \/ leases[i].failed = leases[i].site

\* scrape_ids holds exactly the ids store_scrape returned, in order
AppendedAfterStore ==
    scrape_ids = SelectSeq([ i \in DOMAIN leases |-> leases[i].scrape_id ],
                           LAMBDA id : id # 0)

\* no site leased has its scrape id in scrape_ids and a fail_site call
NeverStoredAndFailed ==
    \A i \in DOMAIN leases :
      ~ /\ leases[i].scrape_id \in Range(scrape_ids)
        /\ leases[i].failed # NoSite

\* C38: in ScrapeWorkflow every site leased has complete_site succeed or
\* fail_site invoked before the next lease is requested, a scrape id is
\* appended only after store_scrape succeeded, and no site has both its
\* scrape id in scrape_ids and a fail_site call, whatever activities fail.
C38_Original ==
    /\ LeaseSettled
    /\ AppendedAfterStore
    /\ NeverStoredAndFailed

---------------------------------------------------------------------------
(* Properties of FormFillWorkflow *)

\* the activities the workflow invoked, in order
WorkflowCalls == SelectSeq(fill_calls, LAMBDA c : c.by = "workflow")

\* the places of WorkflowCalls that invoke fail_ai_application
FailCalls == { i \in DOMAIN WorkflowCalls : WorkflowCalls[i].activity = "fail_ai_application" }

\* one of the three activities of the try block raised
OneRaised ==
    \E i \in DOMAIN WorkflowCalls :
      /\ WorkflowCalls[i].activity # "fail_ai_application"
      /\ ~ WorkflowCalls[i].ok

\* the run is over, with a result or with an exception
RunOver == pc \in { "returned", "raised" }

\* COMPLETED is returned only after the three activities succeeded in order
CompletedSound ==
    fill_result.status = "COMPLETED" =>
      WorkflowCalls = << Call("workflow", "get_resume_for_user", user_id, TRUE),
                         Call("workflow", "run_form_fill", job_url, TRUE),
                         Call("workflow", "complete_ai_application", queue_id, TRUE) >>

\* after one of the three raised, fail_ai_application is invoked exactly
\* once, with the queue id
FailedOnce ==
    (RunOver /\ OneRaised) =>
      /\ Cardinality(FailCalls) = 1
      /\ \A i \in FailCalls : WorkflowCalls[i].arg = leased._id

\* fail_ai_application is never invoked after complete_ai_application succeeded
NoFailAfterComplete ==
    \A i, j \in DOMAIN WorkflowCalls :
      (WorkflowCalls[i].activity = "complete_ai_application" /\ WorkflowCalls[i].ok
         /\ j \in FailCalls) => j < i

\* C39 as stated: whenever one of the three activities raises, status ERROR
\* is returned (besides the other parts of the claim).
C39_Original ==
    /\ CompletedSound
    /\ FailedOnce
    /\ (RunOver /\ OneRaised) => (pc = "returned" /\ fill_result.status = "ERROR")
    /\ NoFailAfterComplete

\* C39: FormFillWorkflow returns COMPLETED only if get_resume_for_user,
\* run_form_fill and complete_ai_application all succeeded, in that order;
\* if any of them raises, fail_ai_application is invoked exactly once with
\* the queue id, and status ERROR is returned when that invocation
\* succeeds, no status at all when it raises; fail_ai_application is never
\* invoked after complete_ai_application has succeeded.
C39_ErrorHandling ==
    /\ CompletedSound
    /\ FailedOnce
    /\ (RunOver /\ OneRaised) =>
         IF \A i \in FailCalls : WorkflowCalls[i].ok
           THEN pc = "returned" /\ fill_result = [ queue_id |-> leased._id, status |-> "ERROR" ]
           ELSE pc = "raised" /\ fill_result = NoResult
    /\ NoFailAfterComplete

\* complete_ai_application raised after the other two succeeded, the one
\* invocation of fail_ai_application succeeded and ERROR was returned
C39_Witness ==
    /\ pc = "returned"
    /\ fill_result.status = "ERROR"
    /\ Len(WorkflowCalls) = 4
    /\ WorkflowCalls[3] = Call("workflow", "complete_ai_application", queue_id, FALSE)
    /\ WorkflowCalls[4] = Call("workflow", "fail_ai_application", queue_id, TRUE)

====
